---- MODULE Spec2Model ----
(***************************************************************************)
(* Client-side session state machine of the ZOX agent IDE: the session     *)
(* store (useAgentStore) and the agent session controller (useAgent), its  *)
(* backend event handlers, the streaming inactivity timer, the listener    *)
(* registration / cleanup of the effect, and the submit / cancel intents    *)
(* of the chat panel.                                                      *)
(***************************************************************************)
EXTENDS Integers, Sequences, FiniteSets, TLC

\* ------------------------------------------------------------------ bounds
\* longest message list explored (appends are disabled beyond it)
MaxMsgs == 2
\* timer ids window.setTimeout may hand out (ids are reused once dead)
MaxTimerId == 2
\* backend calls awaiting their response at the same time
MaxInFlight == 1
\* send_user_feedback calls awaiting their response at the same time
MaxFeedback == 2

\* ------------------------------------------------------------------ inputs
Chunks == {"c1", "c2"}
ThinkingTexts == {"analyzing"}
Tools == {"write_file"}
ToolArgs == {"{}"}
ToolResults == {"ok"}
Paths == {"", "a.ts"}
FileActions == {"read", "write", "delete"}

\* agent-status payloads, as sequences of characters
StatusPayloads ==
    { <<"I","d","l","e">>,
      <<"T","h","i","n","k","i","n","g">>,
      <<"E","x","e","c","u","t","i","n","g">>,
      <<"C","a","n","c","e","l","l","e","d">>,
      <<"D","e","n","i","e","d">>,
      <<"B","u","s","y">> }

CallKinds == {"start_agent_task", "cancel_agent_task"}

EventNames ==
    { "agent-thinking", "agent-stream-chunk", "agent-streaming", "agent-status",
      "agent-tool-result", "agent-approval-request", "agent-file-access",
      "agent-stream-end", "agent-error" }

VARIABLES
    store,                \* useAgentStore state (session and editor fields)
    nextId,               \* ids handed out by crypto.randomUUID so far, plus one
    isMounted,            \* the effect's "still alive" flag
    listeners,            \* Promise.all(listeners): "pending" | "stored" | "dropped"
    unlistenRef,          \* events whose unlisten function is stored
    revoked,              \* per event: how many times its unlisten function ran
    streamingTimeoutRef,  \* stored timer id, 0 for null
    timers,               \* ids of the timeouts still pending in the host
    inflight,             \* per backend call kind: calls awaiting a response
    taskStarted,          \* start_agent_task has been invoked at least once
    lastOp,               \* history: the operation that ran last, with what it was given
    endOvertook,          \* history: the chunk handled last came right after stream-end
    sinceCancel,          \* history: a cancel was applied and the user has not acted since
    streamRun,            \* history: the messages before the current run of chunks
    feedback,             \* send_user_feedback calls awaiting a response
    agentSlice,           \* createAgentSlice state (mode, status, scratch fields)
    stateRef,             \* useRequestDeduplication: isSubmitting, lastRequestTime
    running,              \* actions handed to executeRequest that have not settled
    now,                  \* Date.now()
    lastStart,            \* history: when executeRequest last started an action
    toggle,               \* ConnectionToggle: its React state, its handlers' positions,
                          \* the listeners it registered
    bus,                  \* EventBus: per subscribe method, what its last call settled to
    toolLog,              \* createToolHistorySlice: toolExecutions, and how many were added
    updater,              \* useUpdater: its React state, its pending timers and calls
    editorIO              \* MonacoWrapper: isLoading, its read and save calls awaiting a
                          \* response, and which files were edited in the editor

vars == << store, nextId, isMounted, listeners, unlistenRef, revoked,
           streamingTimeoutRef, timers, inflight, taskStarted,
           lastOp, endOvertook, sinceCancel, streamRun,
           feedback, agentSlice, stateRef, running, now, lastStart, toggle, bus, toolLog,
           updater, editorIO >>

\* state of the updater hook and of the editor component
asideVars == << updater, editorIO >>

\* state of the components around the session
shellVars == << toggle, bus, toolLog, asideVars >>

\* state of the components beside the session controller
sideVars == << feedback, agentSlice, stateRef, running, now, lastStart, shellVars >>

\* the request deduplication guard and its clock
dedupVars == << stateRef, running, now, lastStart >>

Op(name, arg) == [op |-> name, arg |-> arg]

\* ------------------------------------------------------------ session store
Null == << >>
Some(x) == << x >>

InitStore ==
    [ status |-> "idle", isStreaming |-> FALSE, thinkingText |-> "",
      messages |-> << >>, pendingTool |-> Null,
      openFiles |-> << >>, activeFileIndex |-> -1,
      connectionMode |-> "cloud", isModelLoaded |-> FALSE,
      modelLoadProgress |-> Null, setupStatus |-> "null",
      downloadProgress |-> Null ]

setStatus(s, st) ==
    [s EXCEPT !.status = st,
              !.thinkingText = IF st = "idle" THEN "" ELSE s.thinkingText]

setStreaming(s, b) == [s EXCEPT !.isStreaming = b]

\* a store that keeps the tool it holds when another one is set
setPendingToolFirstWins(s, t) ==
    IF s.pendingTool # << >> /\ t # << >> THEN s ELSE [s EXCEPT !.pendingTool = t]

setPendingTool(s, t) == [s EXCEPT !.pendingTool = t]

setThinkingText(s, t) == [s EXCEPT !.thinkingText = t]

setConnectionMode(s, connectionMode) == [s EXCEPT !.connectionMode = connectionMode]
setModelLoaded(s, isModelLoaded) == [s EXCEPT !.isModelLoaded = isModelLoaded]
setModelLoadProgress(s, modelLoadProgress) ==
    [s EXCEPT !.modelLoadProgress = modelLoadProgress]
setSetupStatus(s, setupStatus) == [s EXCEPT !.setupStatus = setupStatus]
setDownloadProgress(s, downloadProgress) ==
    [s EXCEPT !.downloadProgress = downloadProgress]

\* a store that puts a new message in front of the list
addMessageInFront(s, id, role, content) ==
    [s EXCEPT !.messages =
        << [id |-> id, role |-> role, content |-> content, timestamp |-> now] >>
            \o s.messages]

\* id stands for crypto.randomUUID(), the clock for Date.now()
addMessage(s, id, role, content) ==
    [s EXCEPT !.messages =
        Append(s.messages, [id |-> id, role |-> role, content |-> content,
                            timestamp |-> now])]

\* a store that appends every chunk as a message of its own
appendStreamingMessage(s, id, content) == addMessage(s, id, "model", content)

\* a store that rewrites the last message whatever its role
updateStreamingMessageAnyRole(s, id, content) ==
    LET lastIdx == Len(s.messages) IN
    IF lastIdx >= 1
    THEN [s EXCEPT !.messages[lastIdx].content = content]
    ELSE addMessage(s, id, "model", content)

updateStreamingMessage(s, id, content) ==
    LET lastIdx == Len(s.messages) IN
    IF lastIdx >= 1 /\ s.messages[lastIdx].role = "model"
    THEN [s EXCEPT !.messages[lastIdx].content = content]
    ELSE addMessage(s, id, "model", content)

\* whether updateStreamingMessage / addMessage draws a fresh id
AppendsOnChunk(s) ==
    ~(Len(s.messages) >= 1 /\ s.messages[Len(s.messages)].role = "model")

findIndex(files, path) ==
    IF \E i \in 1..Len(files) : files[i].path = path
    THEN (CHOOSE i \in 1..Len(files) :
            /\ files[i].path = path
            /\ \A j \in 1..(i-1) : files[j].path # path) - 1
    ELSE -1

\* an openFile that never looks for the path among the open files
openFileAlwaysAppends(s, path, source, content) ==
    [s EXCEPT !.openFiles = Append(s.openFiles,
                  [path |-> path, content |-> content,
                   isModified |-> FALSE, source |-> source]),
              !.activeFileIndex = Len(s.openFiles)]

\* an openFile that hands an open file over to the caller that opens it again
openFileTakesOver(s, path, source, content) ==
    LET existingIndex == findIndex(s.openFiles, path) IN
    IF existingIndex >= 0
    THEN [s EXCEPT !.activeFileIndex = existingIndex,
                   !.openFiles[existingIndex + 1].source = source]
    ELSE [s EXCEPT !.openFiles = Append(s.openFiles,
                        [path |-> path, content |-> content,
                         isModified |-> FALSE, source |-> source]),
                   !.activeFileIndex = Len(s.openFiles)]

\* the entry's name and language are functions of its path and are left out;
\* content is Null when the caller passes none
openFile(s, path, source, content) ==
    LET existingIndex == findIndex(s.openFiles, path) IN
    IF existingIndex >= 0
    THEN [s EXCEPT !.activeFileIndex = existingIndex]
    ELSE [s EXCEPT !.openFiles = Append(s.openFiles,
                        [path |-> path, content |-> content,
                         isModified |-> FALSE, source |-> source]),
                   !.activeFileIndex = Len(s.openFiles)]

\* state.openFiles.filter((_, i) => i !== index), indexes counted from 0
filterOut(files, index) ==
    IF index >= 0 /\ index < Len(files)
    THEN SubSeq(files, 1, index) \o SubSeq(files, index + 2, Len(files))
    ELSE files

max(a, b) == IF a >= b THEN a ELSE b

\* a closeFile that leaves the active index where it was unless the list empties
closeFileKeepsIndex(s, index) ==
    LET newFiles == filterOut(s.openFiles, index) IN
    [s EXCEPT !.openFiles = newFiles,
              !.activeFileIndex = IF Len(newFiles) = 0 THEN -1 ELSE s.activeFileIndex]

closeFile(s, index) ==
    LET newFiles == filterOut(s.openFiles, index)
        moved == IF index <= s.activeFileIndex
                 THEN max(0, s.activeFileIndex - 1)
                 ELSE s.activeFileIndex
        newActiveIndex == IF Len(newFiles) = 0 THEN -1 ELSE moved
    IN  [s EXCEPT !.openFiles = newFiles, !.activeFileIndex = newActiveIndex]

setActiveFile(s, index) == [s EXCEPT !.activeFileIndex = index]

\* state.openFiles.map((f, i) => i === index ? {...f, content, isModified: true} : f)
updateFileContent(s, index, content) ==
    [s EXCEPT !.openFiles =
        [ k \in 1..Len(s.openFiles) |->
            IF k - 1 = index
            THEN [s.openFiles[k] EXCEPT !.content = Some(content), !.isModified = TRUE]
            ELSE s.openFiles[k] ]]

\* state.openFiles.map((f, i) => i === index ? {...f, isModified: false} : f)
markFileSaved(s, index) ==
    [s EXCEPT !.openFiles =
        [ k \in 1..Len(s.openFiles) |->
            IF k - 1 = index
            THEN [s.openFiles[k] EXCEPT !.isModified = FALSE]
            ELSE s.openFiles[k] ]]

\* ------------------------------------------------- inactivity timer (useAgent)
\* window.setTimeout hands out an id that no pending timeout carries and that
\* differs from the one stored last
FreeTimerIds == (1..MaxTimerId) \ (timers \cup {streamingTimeoutRef})

NewTimerId == CHOOSE id \in FreeTimerIds : \A o \in FreeTimerIds : id <= o

CanArm == FreeTimerIds # {}

\* clearTimeout(streamingTimeoutRef.current), guarded by the ref being set
ClearedTimers ==
    IF streamingTimeoutRef # 0 THEN timers \ {streamingTimeoutRef} ELSE timers

\* a re-arm that sets the new timeout without clearing the one stored
resetStreamingTimeoutKeepsOld ==
    [ ref |-> NewTimerId, timers |-> timers \cup {NewTimerId} ]

resetStreamingTimeout ==
    [ ref |-> NewTimerId, timers |-> ClearedTimers \cup {NewTimerId} ]

\* a clear that forgets clearTimeout and only drops the stored id
dropStreamingTimeoutRef == [ ref |-> 0, timers |-> timers ]

clearStreamingTimeout ==
    IF streamingTimeoutRef # 0
    THEN [ ref |-> 0, timers |-> timers \ {streamingTimeoutRef} ]
    ELSE [ ref |-> streamingTimeoutRef, timers |-> timers ]

SetTimer(t) ==
    /\ streamingTimeoutRef' = t.ref
    /\ timers' = t.timers

\* ------------------------------------------------ agent-status normalisation
LowerOf ==
    [ A |-> "a", B |-> "b", C |-> "c", D |-> "d", E |-> "e", F |-> "f", G |-> "g",
      H |-> "h", I |-> "i", J |-> "j", K |-> "k", L |-> "l", M |-> "m", N |-> "n",
      O |-> "o", P |-> "p", Q |-> "q", R |-> "r", S |-> "s", T |-> "t", U |-> "u",
      V |-> "v", W |-> "w", X |-> "x", Y |-> "y", Z |-> "z" ]

toLowerCase(p) ==
    [ i \in 1..Len(p) |-> IF p[i] \in DOMAIN LowerOf THEN LowerOf[p[i]] ELSE p[i] ]

includes(s, kw) ==
    \E i \in 1..(Len(s) - Len(kw) + 1) :
        \A k \in 1..Len(kw) : s[i + k - 1] = kw[k]

KwIdle == <<"i","d","l","e">>
KwReady == <<"r","e","a","d","y">>
KwComplete == <<"c","o","m","p","l","e","t","e">>
KwThinking == <<"t","h","i","n","k","i","n","g">>
KwExecuting == <<"e","x","e","c","u","t","i","n","g">>
KwCancel == <<"c","a","n","c","e","l">>
KwDenied == <<"d","e","n","i","e","d">>

\* a handler that looks for thinking and executing before the idle keywords
onAgentStatusThinkingFirst(s, payload) ==
    LET st == toLowerCase(payload) IN
    IF includes(st, KwThinking) THEN setStatus(s, "thinking")
    ELSE IF includes(st, KwExecuting) THEN setStatus(s, "executing")
    ELSE IF includes(st, KwIdle) \/ includes(st, KwReady) \/ includes(st, KwComplete)
    THEN setStreaming(setStatus(s, "idle"), FALSE)
    ELSE IF includes(st, KwCancel) \/ includes(st, KwDenied)
    THEN setStreaming(setStatus(s, "idle"), FALSE)
    ELSE s

onAgentStatus(s, payload) ==
    LET st == toLowerCase(payload) IN
    IF includes(st, KwIdle) \/ includes(st, KwReady) \/ includes(st, KwComplete)
    THEN setStreaming(setStatus(s, "idle"), FALSE)
    ELSE IF includes(st, KwThinking) THEN setStatus(s, "thinking")
    ELSE IF includes(st, KwExecuting) THEN setStatus(s, "executing")
    ELSE IF includes(st, KwCancel) \/ includes(st, KwDenied)
    THEN setStreaming(setStatus(s, "idle"), FALSE)
    ELSE s

\* the markdown code fence (three backquotes), which a TLA+ string cannot hold
Fence == "~~~"

FormatToolResult(tool, result) ==
    "**" \o tool \o "**\n" \o Fence \o "\n" \o result \o "\n" \o Fence

\* ------------------------------------------------------------ history
Hist(name, arg) ==
    /\ lastOp' = Op(name, arg)
    /\ endOvertook' = ( /\ name = "agent-stream-chunk"
                        /\ lastOp.op = "agent-stream-end"
                        /\ isMounted )

\* what a terminal event records: whether the session was at rest already
FoundAt(s) ==
    IF s.status = "idle" /\ ~s.isStreaming THEN <<"at-rest">> ELSE <<"busy">>

histVars == << lastOp, endOvertook >>

\* a run of chunks starts at a chunk that finds no model message at the tail,
\* goes on with every further chunk, and ends at any other appended message
ChunkRun(text) ==
    IF streamRun # Null
    THEN Some([base |-> streamRun[1].base, last |-> text, many |-> TRUE])
    ELSE IF AppendsOnChunk(store)
    THEN Some([base |-> store.messages, last |-> text, many |-> FALSE])
    ELSE Null

\* ------------------------------------------------------ backend event handlers
\* handlers without the isMounted check
AliveUnchecked == TRUE

\* every handler starts with: if (!isMounted) return;
Alive == isMounted

\* the timeout callback's own check: if (isMounted) { ... }
TimerAlive == isMounted

\* the backend emits agent events for the tasks it was given, from the first
\* start_agent_task on, and holds a handler from listen() until its unlisten
\* function runs
Listening(e) == taskStarted /\ revoked[e] = 0

lifecycleVars == << isMounted, listeners, unlistenRef, revoked >>

AgentThinking(text) ==
    /\ Listening("agent-thinking")
    /\ IF Alive
       THEN /\ CanArm
            /\ store' = setThinkingText(store, text)
            /\ SetTimer(resetStreamingTimeout)
       ELSE UNCHANGED << store, streamingTimeoutRef, timers >>
    /\ Hist("agent-thinking", << >>)
    /\ UNCHANGED sideVars
    /\ UNCHANGED << nextId, lifecycleVars, inflight, taskStarted, sinceCancel, streamRun >>

AgentStreamChunk(text) ==
    /\ Listening("agent-stream-chunk")
    /\ IF Alive
       THEN /\ CanArm
            /\ AppendsOnChunk(store) => Len(store.messages) < MaxMsgs
            /\ store' = setStreaming(updateStreamingMessage(store, nextId, text), TRUE)
            /\ nextId' = IF AppendsOnChunk(store) THEN nextId + 1 ELSE nextId
            /\ SetTimer(resetStreamingTimeout)
            /\ streamRun' = ChunkRun(text)
       ELSE UNCHANGED << store, nextId, streamingTimeoutRef, timers, streamRun >>
    /\ Hist("agent-stream-chunk", << >>)
    /\ UNCHANGED sideVars
    /\ UNCHANGED << lifecycleVars, inflight, taskStarted, sinceCancel >>

AgentStreaming(flag) ==
    /\ Listening("agent-streaming")
    /\ IF Alive
       THEN store' = IF flag THEN setStatus(setStreaming(store, flag), "thinking")
                             ELSE setStreaming(store, flag)
       ELSE UNCHANGED store
    /\ Hist("agent-streaming", << >>)
    /\ UNCHANGED sideVars
    /\ UNCHANGED << nextId, lifecycleVars, streamingTimeoutRef, timers, inflight, taskStarted,
                    sinceCancel, streamRun >>

AgentStatus(payload) ==
    /\ Listening("agent-status")
    /\ IF Alive
       THEN store' = onAgentStatus(store, payload)
       ELSE UNCHANGED store
    /\ Hist("agent-status", payload)
    /\ UNCHANGED sideVars
    /\ UNCHANGED << nextId, lifecycleVars, streamingTimeoutRef, timers, inflight, taskStarted,
                    sinceCancel, streamRun >>

AgentToolResult(tool, result) ==
    /\ Listening("agent-tool-result")
    /\ IF Alive
       THEN /\ Len(store.messages) < MaxMsgs
            /\ store' = setStreaming(
                   addMessage(store, nextId, "tool", FormatToolResult(tool, result)),
                   FALSE)
            /\ nextId' = nextId + 1
            /\ streamRun' = Null
       ELSE UNCHANGED << store, nextId, streamRun >>
    /\ Hist("agent-tool-result", << >>)
    /\ UNCHANGED sideVars
    /\ UNCHANGED << lifecycleVars, streamingTimeoutRef, timers, inflight, taskStarted, sinceCancel >>

AgentApprovalRequest(tool, parameters) ==
    /\ Listening("agent-approval-request")
    /\ IF Alive
       THEN store' = setPendingTool(store, Some([name |-> tool, args |-> parameters]))
       ELSE UNCHANGED store
    /\ Hist("agent-approval-request", << tool, parameters, store.pendingTool >>)
    /\ UNCHANGED sideVars
    /\ UNCHANGED << nextId, lifecycleVars, streamingTimeoutRef, timers, inflight, taskStarted,
                    sinceCancel, streamRun >>

AgentFileAccess(action, path) ==
    /\ Listening("agent-file-access")
    /\ IF Alive /\ path # "" /\ (action = "read" \/ action = "write")
       THEN store' = openFile(store, path, "agent", Null)
       ELSE UNCHANGED store
    /\ Hist("agent-file-access", << >>)
    /\ UNCHANGED sideVars
    /\ UNCHANGED << nextId, lifecycleVars, streamingTimeoutRef, timers, inflight, taskStarted,
                    sinceCancel, streamRun >>

AgentStreamEnd ==
    /\ Listening("agent-stream-end")
    /\ IF Alive
       THEN /\ store' = setStreaming(setStatus(store, "idle"), FALSE)
            /\ SetTimer(clearStreamingTimeout)
       ELSE UNCHANGED << store, streamingTimeoutRef, timers >>
    /\ Hist("agent-stream-end", FoundAt(store))
    /\ UNCHANGED sideVars
    /\ UNCHANGED << nextId, lifecycleVars, inflight, taskStarted, sinceCancel, streamRun >>

AgentError ==
    /\ Listening("agent-error")
    /\ IF Alive
       THEN /\ store' = setStreaming(setStatus(store, "idle"), FALSE)
            /\ SetTimer(clearStreamingTimeout)
       ELSE UNCHANGED << store, streamingTimeoutRef, timers >>
    /\ Hist("agent-error", FoundAt(store))
    /\ UNCHANGED sideVars
    /\ UNCHANGED << nextId, lifecycleVars, inflight, taskStarted, sinceCancel, streamRun >>

\* a timeout callback that resets the status and forgets the streaming flag
onStreamingTimeoutStatusOnly(s) == setStatus(s, "idle")

\* the body of the callback window.setTimeout was given in resetStreamingTimeout
onStreamingTimeout(s) == setStreaming(setStatus(s, "idle"), FALSE)

StreamingTimeout(id) ==
    /\ id \in timers
    /\ timers' = timers \ {id}
    /\ IF TimerAlive
       THEN store' = onStreamingTimeout(store)
       ELSE UNCHANGED store
    /\ Hist("streaming-timeout", << >>)
    /\ UNCHANGED sideVars
    /\ UNCHANGED << nextId, lifecycleVars, streamingTimeoutRef, inflight, taskStarted, sinceCancel,
                    streamRun >>

\* ------------------------------------------------- store subscribers (zustand)
\* the store calls of the transitions that end a turn, in the order of the source:
\* setStatus('idle'); setStreaming(false)
EndOfTurnCalls == << "setStatus", "setStreaming" >>

endOfTurnCall(s, name) ==
    IF name = "setStatus" THEN setStatus(s, "idle") ELSE setStreaming(s, FALSE)

\* every store call is one set(), and set() calls the subscribers of the store
\* before it returns: the states they are called with, one per call
RECURSIVE Notified(_, _)
Notified(s, calls) ==
    IF calls = << >> THEN << >>
    ELSE LET next == endOfTurnCall(s, Head(calls))
         IN  << next >> \o Notified(next, Tail(calls))

\* ------------------------------------------- listener registration and cleanup
\* a resolution that stores the unlisten functions whatever isMounted says
StoresUnlistenAlways == TRUE

\* Promise.all(listeners).then: if (isMounted) store the unlisten functions
StoresUnlisten == isMounted

RunUnlisten(events) ==
    [ e \in EventNames |-> IF e \in events THEN revoked[e] + 1 ELSE revoked[e] ]

ListenersResolve ==
    /\ listeners = "pending"
    /\ IF StoresUnlisten
       THEN /\ listeners' = "stored"
            /\ unlistenRef' = EventNames
            /\ UNCHANGED revoked
       ELSE /\ listeners' = "dropped"
            /\ revoked' = RunUnlisten(EventNames)
            /\ UNCHANGED unlistenRef
    /\ UNCHANGED sideVars
    /\ UNCHANGED << store, nextId, isMounted, streamingTimeoutRef, timers, inflight, taskStarted,
                    histVars, sinceCancel, streamRun >>

\* the effect's cleanup function
Cleanup ==
    /\ isMounted
    /\ isMounted' = FALSE
    /\ revoked' = RunUnlisten(unlistenRef)
    /\ unlistenRef' = {}
    /\ SetTimer(clearStreamingTimeout)
    /\ Hist("cleanup", << >>)
    /\ sinceCancel' = FALSE
    /\ UNCHANGED sideVars
    /\ UNCHANGED << store, nextId, listeners, inflight, taskStarted, streamRun >>

\* ------------------------------------------------------ backend calls (invoke)
InFlight == inflight["start_agent_task"] + inflight["cancel_agent_task"]

Invoke(kind) == [inflight EXCEPT ![kind] = @ + 1]
Settle(kind) == [inflight EXCEPT ![kind] = @ - 1]

\* ChatPanel.handleSend followed by startAgent, up to its await
handleSend ==
    /\ isMounted
    /\ store.status = "idle"
    /\ Len(store.messages) < MaxMsgs
    /\ InFlight < MaxInFlight
    /\ store' = setStreaming(
                    setStatus(addMessage(store, nextId, "user", "fix the bug"),
                              "thinking"),
                    TRUE)
    /\ nextId' = nextId + 1
    /\ taskStarted' = TRUE
    /\ inflight' = Invoke("start_agent_task")
    /\ Hist("handleSend", << >>)
    /\ sinceCancel' = FALSE
    /\ streamRun' = Null
    /\ UNCHANGED sideVars
    /\ UNCHANGED << lifecycleVars, streamingTimeoutRef, timers >>

\* start_agent_task resolves: startAgent returns
StartResolved ==
    /\ inflight["start_agent_task"] > 0
    /\ UNCHANGED taskStarted
    /\ inflight' = Settle("start_agent_task")
    /\ UNCHANGED sideVars
    /\ UNCHANGED << store, nextId, lifecycleVars, streamingTimeoutRef, timers,
                    histVars, sinceCancel, streamRun >>

\* start_agent_task rejects: startAgent's catch block
StartRejected ==
    /\ inflight["start_agent_task"] > 0
    /\ UNCHANGED taskStarted
    /\ inflight' = Settle("start_agent_task")
    /\ store' = setStreaming(setStatus(store, "error"), FALSE)
    /\ Hist("start-rejected", << >>)
    /\ UNCHANGED sideVars
    /\ UNCHANGED << nextId, lifecycleVars, streamingTimeoutRef, timers, sinceCancel,
                    streamRun >>

\* what cancelAgent does to the store before it awaits the backend call: nothing
cancelAgentBeforeAwait(s) == s

\* what cancelAgent does to the store once the backend call has resolved
cancelAgentAfterAwait(s) ==
    setPendingTool(setStreaming(setStatus(s, "idle"), FALSE), Null)

\* what cancelAgent does to the store in its catch block: nothing
cancelAgentCatch(s) == s

\* Escape, or the header's cancel button: both call cancelAgent only with no
\* pending tool and a status other than idle
cancelAgent ==
    /\ isMounted
    /\ store.pendingTool = Null
    /\ store.status # "idle"
    /\ InFlight < MaxInFlight
    /\ store' = cancelAgentBeforeAwait(store)
    /\ UNCHANGED taskStarted
    /\ inflight' = Invoke("cancel_agent_task")
    /\ Hist("cancelAgent", << >>)
    /\ sinceCancel' = FALSE
    /\ UNCHANGED sideVars
    /\ UNCHANGED << nextId, lifecycleVars, streamingTimeoutRef, timers, streamRun >>

CancelResolved ==
    /\ inflight["cancel_agent_task"] > 0
    /\ UNCHANGED taskStarted
    /\ inflight' = Settle("cancel_agent_task")
    /\ store' = cancelAgentAfterAwait(store)
    /\ Hist("cancel-resolved", << >>)
    /\ sinceCancel' = TRUE
    /\ UNCHANGED sideVars
    /\ UNCHANGED << nextId, lifecycleVars, streamingTimeoutRef, timers, streamRun >>

CancelRejected ==
    /\ inflight["cancel_agent_task"] > 0
    /\ UNCHANGED taskStarted
    /\ inflight' = Settle("cancel_agent_task")
    /\ store' = cancelAgentCatch(store)
    /\ Hist("cancel-rejected", << >>)
    /\ UNCHANGED sideVars
    /\ UNCHANGED << nextId, lifecycleVars, streamingTimeoutRef, timers, sinceCancel,
                    streamRun >>

\* ----------------------------------------- tool approval (send_user_feedback)
\* everything of the session controller but the store and the history of the
\* operation that ran last
controllerVars ==
    << nextId, lifecycleVars, streamingTimeoutRef, timers, inflight, taskStarted,
       endOvertook, sinceCancel, streamRun >>

\* tools the agent asks approval for
RequestedTools == {"write_file", "run_terminal"}

\* invoke('send_user_feedback', { approved }) from the chat panel or the modal
SendUserFeedback(approved, via) ==
    /\ Len(feedback) < MaxFeedback
    /\ feedback' = Append(feedback, [approved |-> approved, via |-> via])

\* ChatPanel.handleApproveTool up to its await: Enter with a pending tool, or
\* the approve button of the input box
handleApproveTool ==
    /\ isMounted
    /\ store.pendingTool # Null
    /\ SendUserFeedback(TRUE, "panel")
    /\ lastOp' = Op("handleApproveTool", << >>)
    /\ UNCHANGED << store, controllerVars, agentSlice, dedupVars, shellVars >>

\* ChatPanel.handleDenyTool up to its await: Escape with a pending tool, the
\* header's button, or the deny button of the input box
handleDenyTool ==
    /\ isMounted
    /\ store.pendingTool # Null
    /\ SendUserFeedback(FALSE, "panel")
    /\ lastOp' = Op("handleDenyTool", << >>)
    /\ UNCHANGED << store, controllerVars, agentSlice, dedupVars, shellVars >>

\* ApprovalModal.handleApprove up to its await (the modal renders only with a
\* pending tool)
handleApprove ==
    /\ store.pendingTool # Null
    /\ SendUserFeedback(TRUE, "modal")
    /\ lastOp' = Op("handleApprove", << >>)
    /\ UNCHANGED << store, controllerVars, agentSlice, dedupVars, shellVars >>

\* ApprovalModal.handleDeny up to its await: the deny button or closing the dialog
handleDeny ==
    /\ store.pendingTool # Null
    /\ SendUserFeedback(FALSE, "modal")
    /\ lastOp' = Op("handleDeny", << >>)
    /\ UNCHANGED << store, controllerVars, agentSlice, dedupVars, shellVars >>

\* what the chat panel does to the store once send_user_feedback has resolved
panelAfterAwait(s, approved) ==
    setStatus(setPendingTool(s, Null), IF approved THEN "executing" ELSE "thinking")

\* what the chat panel does to the store in its catch block: nothing
panelCatch(s) == s

\* what the modal does to the store after its try / catch, in both outcomes
modalAfterTry(s) == setPendingTool(s, Null)

RemoveAt(seq, i) == SubSeq(seq, 1, i - 1) \o SubSeq(seq, i + 1, Len(seq))

FeedbackResolved(i) ==
    /\ i \in 1..Len(feedback)
    /\ feedback' = RemoveAt(feedback, i)
    /\ store' = IF feedback[i].via = "panel"
                THEN panelAfterAwait(store, feedback[i].approved)
                ELSE modalAfterTry(store)
    /\ lastOp' = Op("feedback-resolved", << feedback[i].approved, feedback[i].via >>)
    /\ UNCHANGED << controllerVars, agentSlice, dedupVars, shellVars >>

FeedbackRejected(i) ==
    /\ i \in 1..Len(feedback)
    /\ feedback' = RemoveAt(feedback, i)
    /\ store' = IF feedback[i].via = "panel"
                THEN panelCatch(store)
                ELSE modalAfterTry(store)
    /\ lastOp' = Op("feedback-rejected", << feedback[i].approved, feedback[i].via >>)
    /\ UNCHANGED << controllerVars, agentSlice, dedupVars, shellVars >>

\* ------------------------------------------------ agent slice (createAgentSlice)
\* largest token count explored
MaxTokens == 2

Modes == {"chat", "turbo"}
Statuses == {"idle", "thinking", "executing", "awaiting_approval", "error"}

InitAgentSlice ==
    [ mode |-> "chat", status |-> "idle", isStreaming |-> FALSE,
      thinkingText |-> "", tokenCount |-> 0 ]

AgentSlice_setMode(a, mode) == [a EXCEPT !.mode = mode]

\* a setStatus that leaves the token count alone
AgentSlice_setStatusKeepsTokens(a, status) ==
    [a EXCEPT !.status = status,
              !.thinkingText = IF status = "idle" THEN "" ELSE a.thinkingText]

AgentSlice_setStatus(a, status) ==
    [a EXCEPT !.status = status,
              !.thinkingText = IF status = "idle" THEN "" ELSE a.thinkingText,
              !.tokenCount = IF status = "idle" THEN 0 ELSE a.tokenCount]

AgentSlice_setStreaming(a, isStreaming) == [a EXCEPT !.isStreaming = isStreaming]

AgentSlice_setThinkingText(a, thinkingText) == [a EXCEPT !.thinkingText = thinkingText]

AgentSlice_setTokenCount(a, tokenCount) == [a EXCEPT !.tokenCount = tokenCount]

sliceRest == << store, controllerVars, feedback, dedupVars, shellVars >>

SliceSetMode(mode) ==
    /\ agentSlice' = AgentSlice_setMode(agentSlice, mode)
    /\ lastOp' = Op("AgentSlice.setMode", << >>)
    /\ UNCHANGED sliceRest

\* the history keeps the scratch fields as they were before the call
SliceSetStatus(status) ==
    /\ agentSlice' = AgentSlice_setStatus(agentSlice, status)
    /\ lastOp' = Op("AgentSlice.setStatus",
                    [ status |-> status, thinkingText |-> agentSlice.thinkingText,
                      tokenCount |-> agentSlice.tokenCount ])
    /\ UNCHANGED sliceRest

SliceSetStreaming(isStreaming) ==
    /\ agentSlice' = AgentSlice_setStreaming(agentSlice, isStreaming)
    /\ lastOp' = Op("AgentSlice.setStreaming", << >>)
    /\ UNCHANGED sliceRest

SliceSetThinkingText(thinkingText) ==
    /\ agentSlice' = AgentSlice_setThinkingText(agentSlice, thinkingText)
    /\ lastOp' = Op("AgentSlice.setThinkingText", << >>)
    /\ UNCHANGED sliceRest

SliceSetTokenCount(tokenCount) ==
    /\ agentSlice' = AgentSlice_setTokenCount(agentSlice, tokenCount)
    /\ lastOp' = Op("AgentSlice.setTokenCount", << >>)
    /\ UNCHANGED sliceRest

\* the same setters of useAgentStore, called on the store directly
StoreSetStatus(status) ==
    /\ store' = setStatus(store, status)
    /\ lastOp' = Op("useAgentStore.setStatus",
                    [ status |-> status, thinkingText |-> store.thinkingText ])
    /\ UNCHANGED << controllerVars, sideVars >>

StoreSetThinkingText(thinkingText) ==
    /\ store' = setThinkingText(store, thinkingText)
    /\ lastOp' = Op("useAgentStore.setThinkingText", << >>)
    /\ UNCHANGED << controllerVars, sideVars >>

\* ------------------------------------- request deduplication (executeRequest)
MIN_REQUEST_INTERVAL_MS == 500

\* the clock is followed for this long after the hook was created
MaxElapsed == 1200
\* actions in flight at the same time (a correct guard never exceeds one)
MaxRunning == 2

\* Date.now() when the hook is created
StartTimes == {1000}
\* milliseconds that pass between two steps
Delays == {250, 499, 500}
\* options?.minInterval: undefined, or a number of milliseconds
MinIntervalOptions == {Null, Some(1)}
ActionResults == {"done"}

InitStateRef == [ isSubmitting |-> FALSE, lastRequestTime |-> 0 ]

\* options?.minInterval ?? MIN_REQUEST_INTERVAL_MS
minIntervalOf(options) ==
    IF options = Null THEN MIN_REQUEST_INTERVAL_MS ELSE options[1]

\* a guard that never finds a call too soon
NeverTooSoon(at, lastRequestTime, minInterval) == FALSE

\* now - stateRef.current.lastRequestTime < minInterval
TooSoon(at, lastRequestTime, minInterval) == at - lastRequestTime < minInterval

\* a guard that records the time and leaves the in-flight flag down
startWithoutFlag(ref, at) == [ isSubmitting |-> FALSE, lastRequestTime |-> at ]

\* stateRef.current.isSubmitting = true; stateRef.current.lastRequestTime = now
startRequest(ref, at) == [ isSubmitting |-> TRUE, lastRequestTime |-> at ]

\* finally { stateRef.current.isSubmitting = false }
finishRequest(ref) == [ref EXCEPT !.isSubmitting = FALSE]

dedupRest == << store, controllerVars, feedback, agentSlice, shellVars >>

\* what the history keeps of a call: whether it ran its action, when it was
\* made, when the last action had started, whether one was in flight
CallRecord(ran, options) ==
    [ ran |-> ran, at |-> now, lastStart |-> lastStart, busy |-> running > 0,
      minInterval |-> minIntervalOf(options),
      returned |-> IF ran THEN "pending" ELSE "null" ]

\* an executeRequest that records the time of every call, skipped or not
executeRequestStampsSkipped(options) ==
    /\ running < MaxRunning
    /\ IF stateRef.isSubmitting
          \/ TooSoon(now, stateRef.lastRequestTime, minIntervalOf(options))
       THEN /\ stateRef' = [stateRef EXCEPT !.lastRequestTime = now]
            /\ lastOp' = Op("executeRequest", CallRecord(FALSE, options))
            /\ UNCHANGED << running, lastStart >>
       ELSE /\ stateRef' = startRequest(stateRef, now)
            /\ running' = running + 1
            /\ lastStart' = Some(now)
            /\ lastOp' = Op("executeRequest", CallRecord(TRUE, options))
    /\ UNCHANGED << now, dedupRest >>

\* executeRequest(fn, options) up to its await, or up to its return of null
executeRequest(options) ==
    /\ running < MaxRunning
    /\ IF stateRef.isSubmitting
       THEN /\ lastOp' = Op("executeRequest", CallRecord(FALSE, options))
            /\ UNCHANGED << stateRef, running, lastStart >>
       ELSE IF TooSoon(now, stateRef.lastRequestTime, minIntervalOf(options))
       THEN /\ lastOp' = Op("executeRequest", CallRecord(FALSE, options))
            /\ UNCHANGED << stateRef, running, lastStart >>
       ELSE /\ stateRef' = startRequest(stateRef, now)
            /\ running' = running + 1
            /\ lastStart' = Some(now)
            /\ lastOp' = Op("executeRequest", CallRecord(TRUE, options))
    /\ UNCHANGED << now, dedupRest >>

\* fn() resolves: the finally block runs and executeRequest returns the result
ActionResolves(result) ==
    /\ running > 0
    /\ running' = running - 1
    /\ stateRef' = finishRequest(stateRef)
    /\ lastOp' = Op("action-resolved", [ returned |-> result ])
    /\ UNCHANGED << now, lastStart, dedupRest >>

\* fn() rejects: the finally block runs and executeRequest rejects
ActionRejects ==
    /\ running > 0
    /\ running' = running - 1
    /\ stateRef' = finishRequest(stateRef)
    /\ lastOp' = Op("action-rejected", << >>)
    /\ UNCHANGED << now, lastStart, dedupRest >>

\* time passes
Tick(d) ==
    /\ \A t \in StartTimes : now + d - t <= MaxElapsed
    /\ now' = now + d
    /\ UNCHANGED << stateRef, running, lastStart, lastOp, dedupRest >>

\* ------------------------------------------------- editor files (store API)
\* longest list of open files explored
MaxFiles == 3

EditorPaths == {"a.ts", "b.ts", "c.ts"}
EditorSources == {"user", "agent"}
EditorContents == {"x"}
\* index arguments: every valid index, one below and one beyond
Indexes == (-1)..MaxFiles

\* what the history keeps of the editor fields before a call
EditorBefore == [ openFiles |-> store.openFiles, activeFileIndex |-> store.activeFileIndex ]

OpenFile(path, source) ==
    /\ findIndex(store.openFiles, path) < 0 => Len(store.openFiles) < MaxFiles
    /\ store' = openFile(store, path, source, Null)
    /\ lastOp' = Op("openFile", [ path |-> path, before |-> EditorBefore ])
    /\ UNCHANGED << controllerVars, sideVars >>

CloseFile(index) ==
    /\ store' = closeFile(store, index)
    /\ lastOp' = Op("closeFile", [ index |-> index, before |-> EditorBefore ])
    /\ UNCHANGED << controllerVars, sideVars >>

SetActiveFile(index) ==
    /\ store' = setActiveFile(store, index)
    /\ lastOp' = Op("setActiveFile", [ index |-> index, before |-> EditorBefore ])
    /\ UNCHANGED << controllerVars, sideVars >>

UpdateFileContent(index, content) ==
    /\ store' = updateFileContent(store, index, content)
    /\ lastOp' = Op("updateFileContent", [ index |-> index, before |-> EditorBefore ])
    /\ UNCHANGED << controllerVars, sideVars >>

MarkFileSaved(index) ==
    /\ store' = markFileSaved(store, index)
    /\ lastOp' = Op("markFileSaved", [ index |-> index, before |-> EditorBefore ])
    /\ UNCHANGED << controllerVars, sideVars >>

\* ------------------------------------------- connection mode (ConnectionToggle)
\* runs of handleConfirmSwitch explored
MaxSwitches == 2
\* runs of handleStartSetup explored
MaxSetups == 1

ConnectionModes == {"cloud", "offline"}
\* model-load-progress payloads
LoadPercents == {50}
\* download-progress payloads, by their step
DownloadSteps == {"binaries", "model"}

\* useState initial values; check / switch / setup / cancel are the positions of
\* handleToggleClick, handleConfirmSwitch, handleStartSetup and the cancel
\* button's handler at their awaits; loadGens and setupGens hold, per run of
\* handleConfirmSwitch and of handleStartSetup, which of the two listeners it
\* registered are still registered; trail and setupTrail are the backend calls
\* that completed since the toggle was clicked
InitToggle ==
    [ showConfirmDialog |-> FALSE, showSetupDialog |-> FALSE,
      pendingMode |-> Null, isChecking |-> FALSE, detectedGpuLocal |-> FALSE,
      check |-> "idle", switch |-> "idle", switchMode |-> Null, switchFrom |-> "none",
      setup |-> "idle", setupMode |-> Null, cancel |-> "idle",
      loadGens |-> << >>, setupGens |-> << >>,
      switched |-> FALSE, setupStarted |-> FALSE, cancelled |-> FALSE,
      trail |-> << >>, setupTrail |-> << >> ]

toggleRest == << controllerVars, feedback, agentSlice, dedupVars, bus, toolLog, asideVars >>

isLoading == store.modelLoadProgress # Null
isBusy == store.status # "idle"
\* a dialog is modal: while one is open the page behind it takes no click
DialogOpen == toggle.showConfirmDialog \/ toggle.showSetupDialog

OtherMode(mode) == IF mode = "cloud" THEN "offline" ELSE "cloud"

\* handleToggleClick up to its first await, or to its end for cloud
handleToggleClick ==
    /\ ~DialogOpen
    /\ ~(isLoading \/ isBusy \/ toggle.isChecking)
    /\ LET targetMode == OtherMode(store.connectionMode) IN
       /\ toggle' = IF targetMode = "offline"
                    THEN [toggle EXCEPT !.pendingMode = Some(targetMode),
                                        !.isChecking = TRUE,
                                        !.check = "check_setup_status",
                                        !.trail = << >>]
                    ELSE [toggle EXCEPT !.pendingMode = Some(targetMode),
                                        !.showConfirmDialog = TRUE,
                                        !.trail = << >>]
       /\ lastOp' = Op("handleToggleClick", << targetMode >>)
    /\ UNCHANGED << store, toggleRest >>

\* a probe that looks at the binaries only
needsSetupBinariesOnly(binaries_ok, model_ok) == ~binaries_ok

\* if (!setupResult.binaries_ok || !setupResult.model_ok)
needsSetup(binaries_ok, model_ok) == ~binaries_ok \/ ~model_ok

\* what check_setup_status reported, for the trail
Reported(binaries_ok, model_ok) ==
    IF binaries_ok /\ model_ok THEN "setup-ok" ELSE "setup-missing"

\* check_setup_status resolves
CheckSetupResolved(binaries_ok, model_ok) ==
    /\ toggle.check = "check_setup_status"
    /\ toggle' = IF needsSetup(binaries_ok, model_ok)
                 THEN [toggle EXCEPT !.check = "detect_gpu_cmd",
                                     !.trail = Append(@, Reported(binaries_ok, model_ok))]
                 ELSE [toggle EXCEPT !.check = "idle",
                                     !.showConfirmDialog = TRUE,
                                     !.isChecking = FALSE,
                                     !.trail = Append(@, Reported(binaries_ok, model_ok))]
    /\ lastOp' = Op("check_setup_status",
                    << IF binaries_ok THEN "ok" ELSE "missing",
                       IF model_ok THEN "ok" ELSE "missing" >>)
    /\ UNCHANGED << store, toggleRest >>

\* detect_gpu_cmd resolves; the store's detectedGpu descriptor is left out
DetectGpuResolved ==
    /\ toggle.check = "detect_gpu_cmd"
    /\ toggle' = [toggle EXCEPT !.check = "idle",
                                !.detectedGpuLocal = TRUE,
                                !.showSetupDialog = TRUE,
                                !.isChecking = FALSE,
                                !.trail = Append(@, "detect_gpu_cmd")]
    /\ lastOp' = Op("detect_gpu_cmd", << >>)
    /\ UNCHANGED << store, toggleRest >>

\* check_setup_status or detect_gpu_cmd rejects: catch, then finally
CheckRejected ==
    /\ toggle.check # "idle"
    /\ toggle' = [toggle EXCEPT !.check = "idle", !.isChecking = FALSE,
                                !.trail = Append(@, "failed")]
    /\ lastOp' = Op("check-rejected",
                    << toggle.check, store.connectionMode, toggle.switch >>)
    /\ UNCHANGED << store, toggleRest >>

\* Cancel button or onOpenChange of a dialog
DismissDialog ==
    /\ DialogOpen
    /\ toggle' = [toggle EXCEPT !.showConfirmDialog = FALSE, !.showSetupDialog = FALSE]
    /\ lastOp' = Op("dismiss", << >>)
    /\ UNCHANGED << store, toggleRest >>

\* how many of the two listen() calls of a handler resolved before one rejected
ListenOutcomes == {0, 1, 2}

\* the last element of a list of listener pairs changed by f
AtLast(gens, field, value) ==
    [ k \in 1..Len(gens) |->
        IF k = Len(gens) THEN [gens[k] EXCEPT ![field] = value] ELSE gens[k] ]

\* handleConfirmSwitch from its start to its await of set_connection_mode, or
\* to the end of its catch block when a listen() call rejects
beginSwitch(t, mode, from, listened) ==
    LET gen == [ load |-> listened >= 1, complete |-> listened = 2, mode |-> mode ]
        t1 == [t EXCEPT !.showConfirmDialog = FALSE,
                        !.loadGens = Append(@, gen)]
    IN  IF listened = 2
        THEN [t1 EXCEPT !.switch = "set_connection_mode",
                        !.switchMode = Some(mode),
                        !.switchFrom = from,
                        !.switched = TRUE]
        ELSE t1

beginSwitchStore(s, listened) ==
    IF listened = 2
    THEN setModelLoadProgress(s, Some(0))
    ELSE setModelLoadProgress(s, Null)

\* handleConfirmSwitch after its await: the rest of the try block, or the catch
endSwitchStore(s, mode, resolved) ==
    IF resolved
    THEN setConnectionMode(s, mode)
    ELSE setModelLoadProgress(s, Null)

\* handleStartSetup after handleConfirmSwitch has returned: unlistenComplete()
endSetup(t) ==
    [t EXCEPT !.setup = "idle", !.setupGens = AtLast(@, "complete", FALSE)]

endSwitch(t, resolved) ==
    LET t1 == [t EXCEPT !.switch = "idle", !.switchMode = Null, !.switchFrom = "none",
                        !.loadGens = IF resolved THEN AtLast(@, "complete", FALSE) ELSE @]
    IN  IF t.switchFrom = "setup" THEN endSetup(t1) ELSE t1

\* the Confirm button of the confirmation dialog
handleConfirmSwitch(listened) ==
    /\ toggle.showConfirmDialog
    /\ toggle.switch = "idle"
    /\ Len(toggle.loadGens) < MaxSwitches
    /\ IF toggle.pendingMode = Null
       THEN /\ UNCHANGED << store, toggle >>
            /\ lastOp' = Op("handleConfirmSwitch", << >>)
       ELSE /\ toggle' = beginSwitch(toggle, toggle.pendingMode[1], "dialog", listened)
            /\ store' = beginSwitchStore(store, listened)
            /\ lastOp' = IF listened = 2
                         THEN Op("set_connection_mode",
                                 << toggle.pendingMode[1], "dialog", toggle.trail, "issued" >>)
                         ELSE Op("listen-rejected", << >>)
    /\ UNCHANGED toggleRest

\* set_connection_mode resolves
SwitchResolved ==
    /\ toggle.switch = "set_connection_mode"
    /\ store' = endSwitchStore(store, toggle.switchMode[1], TRUE)
    /\ toggle' = endSwitch(toggle, TRUE)
    /\ lastOp' = Op("switch-resolved", << >>)
    /\ UNCHANGED toggleRest

\* set_connection_mode rejects
SwitchRejected ==
    /\ toggle.switch = "set_connection_mode"
    /\ store' = endSwitchStore(store, toggle.switchMode[1], FALSE)
    /\ toggle' = endSwitch(toggle, FALSE)
    /\ lastOp' = Op("switch-rejected", << >>)
    /\ UNCHANGED toggleRest

\* the backend emits model-load events from the first set_connection_mode on
ModelLoadProgressEvent(percent) ==
    /\ toggle.switched
    /\ store' = IF \E k \in 1..Len(toggle.loadGens) : toggle.loadGens[k].load
                THEN setModelLoadProgress(store, Some(percent))
                ELSE store
    /\ lastOp' = Op("model-load-progress", << >>)
    /\ UNCHANGED << toggle, toggleRest >>

\* every registered completion handler runs, in the order of registration
ModelLoadCompleteEvent ==
    /\ toggle.switched
    /\ LET gens == toggle.loadGens
           heard == { k \in 1..Len(gens) : gens[k].complete }
           lastHeard == CHOOSE k \in heard : \A j \in heard : j <= k
       IN  IF heard = {}
           THEN UNCHANGED << store, toggle >>
           ELSE /\ store' = setModelLoaded(setModelLoadProgress(store, Null),
                                           gens[lastHeard].mode = "offline")
                /\ toggle' = [toggle EXCEPT !.loadGens =
                                 [ k \in 1..Len(gens) |->
                                     IF k \in heard
                                     THEN [gens[k] EXCEPT !.load = FALSE]
                                     ELSE gens[k] ]]
    /\ lastOp' = Op("model-load-complete", << >>)
    /\ UNCHANGED toggleRest

\* the Start button of the setup dialog: handleStartSetup up to its await of
\* download_binaries, or to the end of its catch block when listen() rejects
handleStartSetup(listened) ==
    /\ toggle.showSetupDialog
    /\ toggle.setup = "idle"
    /\ Len(toggle.setupGens) < MaxSetups
    /\ IF ~toggle.detectedGpuLocal
       THEN /\ UNCHANGED << store, toggle >>
            /\ lastOp' = Op("handleStartSetup", << >>)
       ELSE LET gen == [ progress |-> listened >= 1, complete |-> listened = 2 ]
                t1 == [toggle EXCEPT !.showSetupDialog = FALSE,
                                     !.setupGens = Append(@, gen),
                                     !.cancelled = FALSE]
            IN  IF listened = 2
                THEN /\ toggle' = [t1 EXCEPT !.setup = "download_binaries",
                                             !.setupStarted = TRUE,
                                             !.setupMode = toggle.pendingMode,
                                             !.setupTrail = toggle.trail]
                     /\ store' = setSetupStatus(store, "downloading_binaries")
                     /\ lastOp' = Op("handleStartSetup", << >>)
                ELSE /\ toggle' = t1
                     /\ store' = setDownloadProgress(
                                     setSetupStatus(store, "needs_setup"), Null)
                     /\ lastOp' = Op("setup-failed",
                                     << store.connectionMode, toggle.switch >>)
    /\ UNCHANGED toggleRest

\* download_binaries resolves: download_model is invoked
DownloadBinariesResolved ==
    /\ toggle.setup = "download_binaries"
    /\ toggle' = [toggle EXCEPT !.setup = "download_model",
                                !.setupTrail = Append(@, "download_binaries")]
    /\ lastOp' = Op("download_binaries", << >>)
    /\ UNCHANGED << store, toggleRest >>

\* download_model resolves: handleStartSetup calls handleConfirmSwitch with the
\* pendingMode of the render its Start button was clicked in
DownloadModelResolved(listened) ==
    /\ toggle.setup = "download_model"
    /\ toggle.switch = "idle"
    /\ Len(toggle.loadGens) < MaxSwitches
    /\ LET trail == Append(toggle.setupTrail, "download_model")
           t1 == [toggle EXCEPT !.setupTrail = trail]
       IN  IF toggle.setupMode = Null
           THEN /\ toggle' = endSetup(t1)
                /\ lastOp' = Op("download_model", << >>)
                /\ UNCHANGED store
           ELSE /\ toggle' = IF listened = 2
                             THEN [beginSwitch(t1, toggle.setupMode[1], "setup", listened)
                                      EXCEPT !.setup = "switching"]
                             ELSE endSetup(beginSwitch(t1, toggle.setupMode[1], "setup",
                                                       listened))
                /\ store' = beginSwitchStore(store, listened)
                /\ lastOp' = IF listened = 2
                             THEN Op("set_connection_mode",
                                     << toggle.setupMode[1], "setup", trail, "issued" >>)
                             ELSE Op("listen-rejected", << >>)
    /\ UNCHANGED toggleRest

\* download_binaries or download_model rejects: handleStartSetup's catch block
DownloadRejected ==
    /\ toggle.setup \in {"download_binaries", "download_model"}
    /\ toggle' = [toggle EXCEPT !.setup = "idle",
                                !.setupTrail = Append(@, "failed")]
    /\ store' = setDownloadProgress(setSetupStatus(store, "needs_setup"), Null)
    /\ lastOp' = Op("setup-failed", << store.connectionMode, toggle.switch >>)
    /\ UNCHANGED toggleRest

\* the backend emits download events from the first setup on
DownloadProgressEvent(step) ==
    /\ toggle.setupStarted
    /\ store' = IF \E k \in 1..Len(toggle.setupGens) : toggle.setupGens[k].progress
                THEN LET s1 == setDownloadProgress(store, Some(step))
                     IN  IF step = "model"
                         THEN setSetupStatus(s1, "downloading_model")
                         ELSE s1
                ELSE store
    /\ lastOp' = Op("download-progress", << step >>)
    /\ UNCHANGED << toggle, toggleRest >>

SetupCompleteEvent ==
    /\ toggle.setupStarted
    /\ LET gens == toggle.setupGens
           heard == { k \in 1..Len(gens) : gens[k].complete }
       IN  IF heard = {}
           THEN UNCHANGED << store, toggle >>
           ELSE /\ store' = setDownloadProgress(setSetupStatus(store, "complete"), Null)
                /\ toggle' = [toggle EXCEPT !.setupGens =
                                 [ k \in 1..Len(gens) |->
                                     IF k \in heard
                                     THEN [gens[k] EXCEPT !.progress = FALSE]
                                     ELSE gens[k] ]]
    /\ lastOp' = Op("setup-complete", << >>)
    /\ UNCHANGED toggleRest

\* the Cancel button of the download panel, shown while downloadProgress is set
handleCancelDownload ==
    /\ store.downloadProgress # Null
    /\ toggle.cancel = "idle"
    /\ toggle' = [toggle EXCEPT !.cancel = "cancel_download"]
    /\ lastOp' = Op("handleCancelDownload", << >>)
    /\ UNCHANGED << store, toggleRest >>

cancelResolved(t) == [t EXCEPT !.cancel = "idle", !.cancelled = TRUE]

CancelDownloadResolved ==
    /\ toggle.cancel = "cancel_download"
    /\ store' = setSetupStatus(setDownloadProgress(store, Null), "needs_setup")
    /\ toggle' = cancelResolved(toggle)
    /\ lastOp' = Op("cancel-download-resolved", << >>)
    /\ UNCHANGED toggleRest

CancelDownloadRejected ==
    /\ toggle.cancel = "cancel_download"
    /\ toggle' = [toggle EXCEPT !.cancel = "idle"]
    /\ lastOp' = Op("cancel-download-rejected",
                    << store.setupStatus,
                       IF store.downloadProgress = Null THEN "null"
                       ELSE store.downloadProgress[1] >>)
    /\ UNCHANGED << store, toggleRest >>

\* ------------------------------------------------------------- EventBus
\* subscribe methods of the EventBus: each is a one-line call of listen()
BusMethods ==
    { "onStreamChunk", "onStatus", "onModelLoadProgress", "onDownloadProgress",
      "onAppReady" }

InitBus == [ method \in BusMethods |-> "none" ]

\* @tauri-apps/api listen(): a promise of an unlisten function, rejected when
\* the transport is not available
listen(available) == IF available THEN "handle" ELSE "rejected"

\* EventBus.on...(callback): returns the promise of listen() as it is
EventBus_subscribe(available) == listen(available)

busRest == << store, controllerVars, feedback, agentSlice, dedupVars, toggle, toolLog,
             asideVars >>

Subscribe(method, available) ==
    /\ bus' = [bus EXCEPT ![method] = EventBus_subscribe(available)]
    /\ lastOp' = Op("subscribe", << method >>)
    /\ UNCHANGED busRest

\* the caller runs the unlisten function it was given
Unlisten(method) ==
    /\ bus[method] = "handle"
    /\ bus' = [bus EXCEPT ![method] = "revoked"]
    /\ lastOp' = Op("unlisten", << method >>)
    /\ UNCHANGED busRest

\* useAgent: one of the nine listen() promises rejects, so Promise.all rejects;
\* the then-callback does not run and no catch is attached
ListenersReject ==
    /\ listeners = "pending"
    /\ listeners' = "rejected"
    /\ Hist("listeners-rejected", << >>)
    /\ UNCHANGED sideVars
    /\ UNCHANGED << store, nextId, isMounted, unlistenRef, revoked, streamingTimeoutRef,
                    timers, inflight, taskStarted, sinceCancel, streamRun >>

\* ------------------------------------------ tool history (toolHistorySlice)
MAX_TOOL_HISTORY == 100
\* executions added over a run
MaxAdded == 103
\* count arguments of getRecentExecutions; 10 is the default
Counts == {-1, 0, 1, 10, 100, 101}

InitToolLog == [ toolExecutions |-> << >>, added |-> 0 ]

min(a, b) == IF a <= b THEN a ELSE b

\* Array.prototype.slice(0, end): a negative end counts from the end of the array
slice0(array, end) ==
    LET stop == IF end < 0 THEN max(0, Len(array) + end) ELSE min(end, Len(array))
    IN  SubSeq(array, 1, stop)

\* a log that appends at the end and then cuts to the maximum
addToolExecutionAtEnd(log, execution) ==
    [ toolExecutions |-> slice0(Append(log.toolExecutions, execution), MAX_TOOL_HISTORY),
      added |-> log.added + 1 ]

\* [newExecution, ...state.toolExecutions].slice(0, MAX_TOOL_HISTORY)
addToolExecution(log, execution) ==
    [ toolExecutions |-> slice0(<< execution >> \o log.toolExecutions, MAX_TOOL_HISTORY),
      added |-> log.added + 1 ]

clearToolHistory(log) == [log EXCEPT !.toolExecutions = << >>]

getRecentExecutions(log, count) == slice0(log.toolExecutions, count)

toolLogRest == << store, controllerVars, feedback, agentSlice, dedupVars, toggle, bus,
                 asideVars >>

\* the id stands for crypto.randomUUID(): the number of the execution
AddToolExecution(tool, approved) ==
    /\ toolLog.added < MaxAdded
    /\ toolLog' = addToolExecution(toolLog,
                      [ id |-> toolLog.added + 1, tool |-> tool, approved |-> approved,
                        timestamp |-> now ])
    /\ lastOp' = Op("addToolExecution", << >>)
    /\ UNCHANGED toolLogRest

ClearToolHistory ==
    /\ toolLog' = clearToolHistory(toolLog)
    /\ lastOp' = Op("clearToolHistory", << >>)
    /\ UNCHANGED toolLogRest

GetRecentExecutions(count) ==
    /\ lastOp' = Op("getRecentExecutions",
                    << count, getRecentExecutions(toolLog, count) >>)
    /\ UNCHANGED << toolLog, toolLogRest >>

\* ------------------------------------------------- messages (store API)
\* longest message list the direct store calls build
MaxStored == 3

Roles == {"user", "model", "tool"}
\* the clock advances between calls
ClockStep == 500

AddMessage(role, content) ==
    /\ Len(store.messages) < MaxStored
    /\ store' = addMessage(store, nextId, role, content)
    /\ nextId' = nextId + 1
    /\ Hist("addMessage", << >>)
    /\ streamRun' = Null
    /\ UNCHANGED sideVars
    /\ UNCHANGED << lifecycleVars, streamingTimeoutRef, timers, inflight, taskStarted,
                    sinceCancel >>

UpdateStreamingMessage(content) ==
    /\ AppendsOnChunk(store) => Len(store.messages) < MaxStored
    /\ store' = updateStreamingMessage(store, nextId, content)
    /\ nextId' = IF AppendsOnChunk(store) THEN nextId + 1 ELSE nextId
    /\ Hist("updateStreamingMessage", << >>)
    /\ streamRun' = ChunkRun(content)
    /\ UNCHANGED sideVars
    /\ UNCHANGED << lifecycleVars, streamingTimeoutRef, timers, inflight, taskStarted,
                    sinceCancel >>

\* ------------------------------------------------------ updater (useUpdater)
MAX_RETRIES == 3
\* milliseconds
RETRY_DELAY_BASE == 2000
\* retry timers started in one behaviour
MaxRetryTimers == 5
\* check_for_updates calls awaiting a response at once
MaxChecks == 2

\* rejection messages of check_for_updates, as sequences of characters
ErrorMessages ==
    { <<"N","e","t","w","o","r","k"," ","d","o","w","n">>,
      <<"F","a","i","l","e","d"," ","t","o"," ","f","e","t","c","h">>,
      <<"T","i","m","e","o","u","t">>,
      <<"b","a","d"," ","s","i","g","n","a","t","u","r","e">> }

KwNetwork == <<"n","e","t","w","o","r","k">>
KwFetch == <<"f","e","t","c","h">>
KwTimeout == <<"t","i","m","e","o","u","t">>

\* checks holds, per call awaiting a response, the retryCount its callback closed
\* over; retryTimers holds, per pending timeout, the retryCount its callback
\* closed over and its delay; mountTimer is the 5 s timeout of the mount effect;
\* retryRun and manual are history: the delays of the retry timers started, and
\* whether the user asked for a check, since the last check that succeeded
InitUpdater ==
    [ status |-> "idle", updateInfo |-> FALSE, error |-> "null", retryable |-> FALSE,
      retryCount |-> 0, mountTimer |-> TRUE, retryTimers |-> << >>, checks |-> << >>,
      retryRun |-> << >>, manual |-> FALSE, started |-> 0 ]

updaterRest == << store, controllerVars, feedback, agentSlice, dedupVars,
                  toggle, bus, toolLog, editorIO >>

isNetworkError(message) ==
    \/ includes(toLowerCase(message), KwNetwork)
    \/ includes(toLowerCase(message), KwFetch)
    \/ includes(toLowerCase(message), KwTimeout)

\* retryCount is the value the callback closed over when it was created
handleError(u, retryCount, message) ==
    LET network == isNetworkError(message)
        retryable == network /\ retryCount < MAX_RETRIES
        delay == RETRY_DELAY_BASE * 2^retryCount
        failed == [u EXCEPT !.error = IF network THEN "network" ELSE "unknown",
                            !.retryable = retryable,
                            !.status = "error"]
    IN  IF retryable /\ retryCount < MAX_RETRIES
        THEN [failed EXCEPT
                !.retryTimers = Append(u.retryTimers,
                                       [ retryCount |-> retryCount, delay |-> delay ]),
                !.retryRun = Append(u.retryRun, delay),
                !.started = u.started + 1]
        ELSE failed

\* checkForUpdates up to its await; its handleError is the one of the same render
checkForUpdates(u, retryCount) ==
    [u EXCEPT !.status = "checking", !.error = "null", !.retryable = FALSE,
              !.checks = Append(u.checks, retryCount)]

dismissUpdate(u) ==
    [u EXCEPT !.status = "idle", !.updateInfo = FALSE, !.error = "null",
              !.retryable = FALSE]

\* the timeout of the mount effect calls the checkForUpdates of the first render
MountTimerFires ==
    /\ updater.mountTimer
    /\ Len(updater.checks) < MaxChecks
    /\ updater' = [checkForUpdates(updater, 0) EXCEPT !.mountTimer = FALSE]
    /\ lastOp' = Op("mount-check", << >>)
    /\ UNCHANGED updaterRest

\* the status bar offers the check in these states, with the latest render's callback
UserCheckForUpdates ==
    /\ updater.status \in {"idle", "error", "up-to-date"}
    /\ Len(updater.checks) < MaxChecks
    /\ updater' = [checkForUpdates(updater, updater.retryCount) EXCEPT !.manual = TRUE]
    /\ lastOp' = Op("user-check", << >>)
    /\ UNCHANGED updaterRest

UpdateCheckResolved(found) ==
    /\ Len(updater.checks) > 0
    /\ updater' = [updater EXCEPT
                     !.checks = Tail(updater.checks),
                     !.updateInfo = IF found THEN TRUE ELSE updater.updateInfo,
                     !.status = IF found THEN "available" ELSE "up-to-date",
                     !.retryCount = 0,
                     !.retryRun = << >>,
                     !.manual = FALSE]
    /\ lastOp' = Op("update-check-resolved", << >>)
    /\ UNCHANGED updaterRest

UpdateCheckRejected(message) ==
    /\ Len(updater.checks) > 0
    /\ isNetworkError(message) /\ Head(updater.checks) < MAX_RETRIES
           => updater.started < MaxRetryTimers
    /\ updater' = handleError([updater EXCEPT !.checks = Tail(updater.checks)],
                              Head(updater.checks), message)
    /\ lastOp' = Op("update-check-rejected",
                    << IF isNetworkError(message) THEN "network" ELSE "other" >>)
    /\ UNCHANGED updaterRest

\* setRetryCount(prev => prev + 1); checkForUpdates() of the render the timer was set in
RetryTimerFires(i) ==
    /\ i \in 1..Len(updater.retryTimers)
    /\ Len(updater.checks) < MaxChecks
    /\ updater' = checkForUpdates(
                      [updater EXCEPT !.retryTimers = RemoveAt(updater.retryTimers, i),
                                      !.retryCount = updater.retryCount + 1],
                      updater.retryTimers[i].retryCount)
    /\ lastOp' = Op("retry-timer", << >>)
    /\ UNCHANGED updaterRest

DismissUpdate ==
    /\ updater.status = "available"
    /\ updater' = dismissUpdate(updater)
    /\ lastOp' = Op("dismiss-update", << >>)
    /\ UNCHANGED updaterRest

\* ------------------------------------------------ editor component (MonacoWrapper)
\* read_workspace_file and save_workspace_file calls awaiting a response at once
MaxEditorCalls == 2

\* calls holds, per call awaiting a response, its kind, the path it was given and
\* the activeFileIndex its caller closed over; edited is history: the paths whose
\* content was changed in the editor since they were last saved
\* files of the workspace the agent touches
WorkspacePaths == {"a.ts", "b.ts"}

InitEditorIO == [ isLoading |-> FALSE, calls |-> << >>, edited |-> {} ]

editorRest == << controllerVars, feedback, agentSlice, dedupVars, toggle, bus, toolLog,
                 updater >>

\* selectActiveFile(state) is an entry
HasActiveFile(s) == s.activeFileIndex >= 0 /\ s.activeFileIndex < Len(s.openFiles)

selectActiveFile(s) == s.openFiles[s.activeFileIndex + 1]

Call(kind) ==
    [ kind |-> kind, path |-> selectActiveFile(store).path,
      index |-> store.activeFileIndex ]

\* the effect on [activeFile?.path, activeFileIndex], up to its await
LoadContent ==
    /\ HasActiveFile(store)
    /\ selectActiveFile(store).content = Null
    /\ Call("read") \notin { editorIO.calls[i] : i \in 1..Len(editorIO.calls) }
    /\ Len(editorIO.calls) < MaxEditorCalls
    /\ editorIO' = [editorIO EXCEPT !.isLoading = TRUE, !.calls = Append(@, Call("read"))]
    /\ lastOp' = Op("loadContent", << >>)
    /\ UNCHANGED << store, editorRest >>

\* the workspace-file-change listener, for a payload that names the active file
WorkspaceFileChange ==
    /\ HasActiveFile(store)
    /\ Call("reload") \notin { editorIO.calls[i] : i \in 1..Len(editorIO.calls) }
    /\ Len(editorIO.calls) < MaxEditorCalls
    /\ editorIO' = [editorIO EXCEPT !.calls = Append(@, Call("reload"))]
    /\ lastOp' = Op("workspace-file-change", << >>)
    /\ UNCHANGED << store, editorRest >>

\* read_workspace_file resolves: updateFileContent(activeFileIndex, content), and
\* for loadContent its finally block
ReadResolved(i, content) ==
    /\ i \in 1..Len(editorIO.calls)
    /\ editorIO.calls[i].kind \in {"read", "reload"}
    /\ store' = updateFileContent(store, editorIO.calls[i].index, content)
    /\ editorIO' = [editorIO EXCEPT
                      !.calls = RemoveAt(@, i),
                      !.isLoading = IF editorIO.calls[i].kind = "read" THEN FALSE ELSE @]
    /\ lastOp' = Op("read-resolved", << >>)
    /\ UNCHANGED editorRest

ReadRejected(i) ==
    /\ i \in 1..Len(editorIO.calls)
    /\ editorIO.calls[i].kind \in {"read", "reload"}
    /\ editorIO' = [editorIO EXCEPT
                      !.calls = RemoveAt(@, i),
                      !.isLoading = IF editorIO.calls[i].kind = "read" THEN FALSE ELSE @]
    /\ lastOp' = Op("read-rejected", << >>)
    /\ UNCHANGED << store, editorRest >>

\* the editor is rendered for the active file while isLoading is false
handleEditorChange(value) ==
    /\ HasActiveFile(store)
    /\ ~editorIO.isLoading
    /\ store' = updateFileContent(store, store.activeFileIndex, value)
    /\ editorIO' = [editorIO EXCEPT !.edited = @ \cup {selectActiveFile(store).path}]
    /\ lastOp' = Op("handleEditorChange", << >>)
    /\ UNCHANGED editorRest

\* the Save button, enabled while the active file is modified: up to its await
handleSave ==
    /\ HasActiveFile(store)
    /\ selectActiveFile(store).isModified
    /\ Len(editorIO.calls) < MaxEditorCalls
    /\ IF selectActiveFile(store).content = Null
       THEN UNCHANGED editorIO
       ELSE editorIO' = [editorIO EXCEPT !.calls = Append(@, Call("save"))]
    /\ lastOp' = Op("handleSave", << >>)
    /\ UNCHANGED << store, editorRest >>

\* save_workspace_file resolves: markFileSaved(activeFileIndex)
SaveResolved(i) ==
    /\ i \in 1..Len(editorIO.calls)
    /\ editorIO.calls[i].kind = "save"
    /\ store' = markFileSaved(store, editorIO.calls[i].index)
    /\ editorIO' = [editorIO EXCEPT !.calls = RemoveAt(@, i),
                                    !.edited = @ \ {editorIO.calls[i].path}]
    /\ lastOp' = Op("save-resolved", << >>)
    /\ UNCHANGED editorRest

SaveRejected(i) ==
    /\ i \in 1..Len(editorIO.calls)
    /\ editorIO.calls[i].kind = "save"
    /\ editorIO' = [editorIO EXCEPT !.calls = RemoveAt(@, i)]
    /\ lastOp' = Op("save-rejected", << >>)
    /\ UNCHANGED << store, editorRest >>

\* a file-access event opens the file for the agent, with no content
FileOpened(path) ==
    /\ findIndex(store.openFiles, path) < 0 => Len(store.openFiles) < MaxFiles
    /\ store' = openFile(store, path, "agent", Null)
    /\ lastOp' = Op("file-opened", << >>)
    /\ UNCHANGED << editorIO, editorRest >>

\* a click on a tab
TabClick(index) ==
    /\ index \in 0..(Len(store.openFiles) - 1)
    /\ store' = setActiveFile(store, index)
    /\ lastOp' = Op("tab-click", << >>)
    /\ UNCHANGED << editorIO, editorRest >>

\* a click on a tab's close button
TabClose(index) ==
    /\ index \in 0..(Len(store.openFiles) - 1)
    /\ store' = closeFile(store, index)
    /\ lastOp' = Op("tab-close", << >>)
    /\ UNCHANGED << editorIO, editorRest >>

\* ------------------------------------------------------------ specification
\* the state right after the effect has run: alive, nine listen() calls pending
Init ==
    /\ store = InitStore
    /\ nextId = 1
    /\ isMounted = TRUE
    /\ listeners = "pending"
    /\ unlistenRef = {}
    /\ revoked = [e \in EventNames |-> 0]
    /\ streamingTimeoutRef = 0
    /\ timers = {}
    /\ inflight = [k \in CallKinds |-> 0]
    /\ taskStarted = FALSE
    /\ lastOp = Op("mount", << >>)
    /\ endOvertook = FALSE
    /\ sinceCancel = FALSE
    /\ streamRun = Null
    /\ feedback = << >>
    /\ agentSlice = InitAgentSlice
    /\ stateRef = InitStateRef
    /\ running = 0
    /\ now \in StartTimes
    /\ lastStart = Null
    /\ toggle = InitToggle
    /\ bus = InitBus
    /\ toolLog = InitToolLog
    /\ updater = InitUpdater
    /\ editorIO = InitEditorIO

SessionEvent ==
    \/ \E text \in ThinkingTexts : AgentThinking(text)
    \/ \E text \in Chunks : AgentStreamChunk(text)
    \/ \E flag \in BOOLEAN : AgentStreaming(flag)
    \/ \E payload \in StatusPayloads : AgentStatus(payload)
    \/ \E tool \in Tools, result \in ToolResults : AgentToolResult(tool, result)
    \/ \E tool \in Tools, parameters \in ToolArgs : AgentApprovalRequest(tool, parameters)
    \/ AgentStreamEnd
    \/ AgentError

BackendEvent ==
    \/ SessionEvent
    \/ \E action \in FileActions, path \in Paths : AgentFileAccess(action, path)

UserAction ==
    \/ handleSend
    \/ cancelAgent
    \/ Cleanup

CallSettles ==
    \/ StartResolved
    \/ StartRejected
    \/ CancelResolved
    \/ CancelRejected

TimerFires == \E id \in 1..MaxTimerId : StreamingTimeout(id)

Next ==
    \/ BackendEvent
    \/ UserAction
    \/ CallSettles
    \/ ListenersResolve
    \/ TimerFires

Spec == Init /\ [][Next]_vars

\* the session protocol alone: a backend that emits no file-access events (they
\* touch the editor fields only)
SessionNext ==
    \/ SessionEvent
    \/ UserAction
    \/ CallSettles
    \/ ListenersResolve
    \/ TimerFires

\* a pending timeout is run by the host's event loop once STREAMING_TIMEOUT_MS
\* have passed; re-arming replaces it by a timeout with another id
FairSpec ==
    /\ Init
    /\ [][SessionNext]_vars
    /\ \A id \in 1..MaxTimerId : WF_vars(StreamingTimeout(id))

\* the approval protocol: a task is started, the agent asks approval for tools
\* and reports its status, the user answers through the chat panel or the modal
FeedbackNext ==
    \/ handleSend
    \/ StartResolved
    \/ \E tool \in RequestedTools, parameters \in ToolArgs :
           AgentApprovalRequest(tool, parameters)
    \/ \E payload \in StatusPayloads : AgentStatus(payload)
    \/ AgentStreamEnd
    \/ handleApproveTool
    \/ handleDenyTool
    \/ handleApprove
    \/ handleDeny
    \/ \E i \in 1..MaxFeedback : FeedbackResolved(i)
    \/ \E i \in 1..MaxFeedback : FeedbackRejected(i)

FeedbackSpec == Init /\ [][FeedbackNext]_vars

\* the setters of the agent slice and of the store, called in any order
SliceNext ==
    \/ \E mode \in Modes : SliceSetMode(mode)
    \/ \E status \in Statuses : SliceSetStatus(status)
    \/ \E isStreaming \in BOOLEAN : SliceSetStreaming(isStreaming)
    \/ \E thinkingText \in ThinkingTexts \cup {""} : SliceSetThinkingText(thinkingText)
    \/ \E tokenCount \in 0..MaxTokens : SliceSetTokenCount(tokenCount)
    \/ \E status \in Statuses : StoreSetStatus(status)
    \/ \E thinkingText \in ThinkingTexts \cup {""} : StoreSetThinkingText(thinkingText)

SliceSpec == Init /\ [][SliceNext]_vars

\* one guard instance, called at any time with or without a minInterval option
DedupNext ==
    \/ \E options \in MinIntervalOptions : executeRequest(options)
    \/ \E result \in ActionResults : ActionResolves(result)
    \/ ActionRejects
    \/ \E d \in Delays : Tick(d)

DedupSpec == Init /\ [][DedupNext]_vars

\* the two message operations of the store, called directly in any order and
\* through the handlers that call them, while the clock advances
MessagesNext ==
    \/ \E role \in Roles, content \in Chunks : AddMessage(role, content)
    \/ \E content \in Chunks : UpdateStreamingMessage(content)
    \/ handleSend
    \/ StartResolved
    \/ \E text \in Chunks : AgentStreamChunk(text)
    \/ \E tool \in Tools, result \in ToolResults : AgentToolResult(tool, result)
    \/ Tick(ClockStep)

MessagesSpec == Init /\ [][MessagesNext]_vars

\* what the user does with the connection toggle and its dialogs
ToggleIntent ==
    \/ handleToggleClick
    \/ DismissDialog
    \/ \E listened \in ListenOutcomes : handleConfirmSwitch(listened)
    \/ \E listened \in ListenOutcomes : handleStartSetup(listened)

\* a backend call of the toggle settles
ToggleCallSettles ==
    \/ \E binaries_ok, model_ok \in BOOLEAN : CheckSetupResolved(binaries_ok, model_ok)
    \/ DetectGpuResolved
    \/ CheckRejected
    \/ DownloadBinariesResolved
    \/ \E listened \in ListenOutcomes : DownloadModelResolved(listened)
    \/ DownloadRejected

SwitchSettles == SwitchResolved \/ SwitchRejected

ModelLoadEvent ==
    \/ \E percent \in LoadPercents : ModelLoadProgressEvent(percent)
    \/ ModelLoadCompleteEvent

DownloadEvent ==
    \/ \E step \in DownloadSteps : DownloadProgressEvent(step)
    \/ SetupCompleteEvent

\* the download panel's Cancel button and the answers to cancel_download
CancelDownload ==
    \/ handleCancelDownload
    \/ CancelDownloadResolved
    \/ CancelDownloadRejected

\* the mode switch with its probe and its setup, without the download panel
GateNext == ToggleIntent \/ ToggleCallSettles \/ SwitchSettles \/ ModelLoadEvent

GateSpec == Init /\ [][GateNext]_vars

ConnectionNext == GateNext \/ DownloadEvent \/ CancelDownload

ConnectionSpec == Init /\ [][ConnectionNext]_vars

\* the backend answers every set_connection_mode call
GateFairSpec ==
    /\ Init
    /\ [][GateNext]_vars
    /\ WF_vars(SwitchSettles)

\* subscriptions through the EventBus with the transport available or not, and
\* the session controller whose own listen() calls resolve or reject
BusNext ==
    \/ \E method \in BusMethods, available \in BOOLEAN : Subscribe(method, available)
    \/ \E method \in BusMethods : Unlisten(method)
    \/ ListenersResolve
    \/ ListenersReject
    \/ Cleanup

BusSpec == Init /\ [][BusNext]_vars

\* the operations of the tool history, called in any order
ToolLogNext ==
    \/ \E tool \in Tools : AddToolExecution(tool, TRUE)
    \/ ClearToolHistory
    \/ \E count \in Counts : GetRecentExecutions(count)

ToolLogSpec == Init /\ [][ToolLogNext]_vars

\* status texts with one keyword, with several, with none, in either case
StatusTexts ==
    StatusPayloads \cup
    { <<"r","e","a","d","y">>,
      <<"T","A","S","K"," ","C","O","M","P","L","E","T","E">>,
      <<"t","h","i","n","k","i","n","g"," ","i","d","l","e">>,
      <<"e","x","e","c","u","t","i","n","g"," ","t","h","i","n","k","i","n","g">>,
      <<"c","a","n","c","e","l"," ","E","x","e","c","u","t","i","n","g">>,
      <<"d","e","n","i","e","d"," ","r","e","a","d","y">>,
      <<"e","r","r","o","r">>,
      << >> }

\* status events of every kind arriving at a session in any of its states
StatusNext ==
    \/ handleSend
    \/ StartResolved
    \/ StartRejected
    \/ \E payload \in StatusTexts : AgentStatus(payload)
    \/ \E text \in ThinkingTexts : AgentThinking(text)
    \/ \E text \in Chunks : AgentStreamChunk(text)
    \/ \E tool \in Tools, parameters \in ToolArgs : AgentApprovalRequest(tool, parameters)
    \/ \E action \in FileActions, path \in Paths : AgentFileAccess(action, path)
    \/ Cleanup

StatusSpec == Init /\ [][StatusNext]_vars

\* tool results as the backend reports them
ReportedResults == {"ok", "error: not found"}

\* tool results of several tools arriving at a session in any of its states
ToolResultNext ==
    \/ handleSend
    \/ StartResolved
    \/ StartRejected
    \/ \E payload \in StatusPayloads : AgentStatus(payload)
    \/ \E text \in Chunks : AgentStreamChunk(text)
    \/ \E tool \in RequestedTools, parameters \in ToolArgs :
           AgentApprovalRequest(tool, parameters)
    \/ \E tool \in RequestedTools, result \in ReportedResults :
           AgentToolResult(tool, result)
    \/ Cleanup

ToolResultSpec == Init /\ [][ToolResultNext]_vars

\* paths the agent reports and the user opens
AccessPaths == {"", "a.ts", "b.ts"}

\* file-access events arriving while the user opens, edits and closes files
FileAccessNext ==
    \/ handleSend
    \/ StartResolved
    \/ \E action \in FileActions, path \in AccessPaths : AgentFileAccess(action, path)
    \/ \E path \in AccessPaths \ {""} : OpenFile(path, "user")
    \/ \E index \in 0..(MaxFiles - 1) : CloseFile(index)
    \/ \E index \in 0..(MaxFiles - 1), content \in EditorContents :
           UpdateFileContent(index, content)
    \/ Cleanup

FileAccessSpec == Init /\ [][FileAccessNext]_vars

\* the updater hook: its mount check, the user's checks, the backend's answers
UpdaterNext ==
    \/ MountTimerFires
    \/ UserCheckForUpdates
    \/ \E found \in BOOLEAN : UpdateCheckResolved(found)
    \/ \E message \in ErrorMessages : UpdateCheckRejected(message)
    \/ \E i \in 1..MaxRetryTimers : RetryTimerFires(i)
    \/ DismissUpdate

UpdaterSpec == Init /\ [][UpdaterNext]_vars

\* the editor component: files opened for the agent, tabs, edits, reads and saves
EditorIONext ==
    \/ \E path \in WorkspacePaths : FileOpened(path)
    \/ \E index \in Indexes : TabClick(index)
    \/ \E index \in Indexes : TabClose(index)
    \/ LoadContent
    \/ WorkspaceFileChange
    \/ \E i \in 1..MaxEditorCalls, content \in EditorContents : ReadResolved(i, content)
    \/ \E i \in 1..MaxEditorCalls : ReadRejected(i)
    \/ \E value \in EditorContents : handleEditorChange(value)
    \/ handleSave
    \/ \E i \in 1..MaxEditorCalls : SaveResolved(i)
    \/ \E i \in 1..MaxEditorCalls : SaveRejected(i)

EditorIOSpec == Init /\ [][EditorIONext]_vars

\* the file operations of the store, called in any order with any index
EditorNext ==
    \/ \E path \in EditorPaths, source \in EditorSources : OpenFile(path, source)
    \/ \E index \in Indexes : CloseFile(index)
    \/ \E index \in Indexes : SetActiveFile(index)
    \/ \E index \in Indexes, content \in EditorContents : UpdateFileContent(index, content)
    \/ \E index \in Indexes : MarkFileSaved(index)

EditorSpec == Init /\ [][EditorNext]_vars

\* ------------------------------------------------------------ claims
Idle == store.status = "idle" /\ ~store.isStreaming

AtRest == Idle /\ store.pendingTool = Null

\* the backend stays silent and the user does nothing more: from some point on
\* the only steps are timeouts firing
EventuallyQuiet == <>[][TimerFires]_vars

\* C1: after a prompt submission (status thinking, isStreaming true), when no
\* backend event and no user action follows, the inactivity timer fires and the
\* session is idle with isStreaming false.
C1_SubmitSelfHeals ==
    (lastOp.op = "handleSend") ~>
        (Idle \/ lastOp.op \notin {"handleSend", "streaming-timeout"})

C4_OptimisticCancel ==
    lastOp.op = "cancelAgent" => AtRest

\* C5: during a run of stream-chunk events that started with no model message
\* at the tail, the list is the list from before the run plus exactly one
\* model message, with a fresh id, whose content is the last chunk.
C5_StreamingTailMerge ==
    streamRun # Null =>
        LET base == streamRun[1].base
            n == Len(store.messages)
        IN  /\ n = Len(base) + 1
            /\ SubSeq(store.messages, 1, n - 1) = base
            /\ store.messages[n].role = "model"
            /\ store.messages[n].content = streamRun[1].last
            /\ \A i \in 1..Len(base) : base[i].id # store.messages[n].id

\* two chunks or more came after a user message, the last of them c2
C5_Witness ==
    /\ streamRun # Null
    /\ streamRun[1].many
    /\ streamRun[1].last = "c2"
    /\ Len(streamRun[1].base) = 1
    /\ streamRun[1].base[1].role = "user"

\* C6: when stream-end was handled right before the turn's last stream-chunk,
\* isStreaming is not stuck true: once the backend is silent and the user does
\* nothing more, the session of a live controller reaches status idle with
\* isStreaming false.
C6_ReorderedEndSelfHeals ==
    EventuallyQuiet => (endOvertook ~> (Idle \/ ~isMounted))

\* the chunk has been handled after the stream-end: streaming again, status idle
C6_Witness ==
    /\ endOvertook
    /\ store.isStreaming
    /\ store.status = "idle"
    /\ timers # {}

\* C7: after a cancel has reset the session, whatever late events arrive, once
\* the backend is silent the session is back at status idle, isStreaming false
\* and no pending tool, unless the user acted in between.
C7_StaleEventsBenign ==
    EventuallyQuiet => (sinceCancel ~> (AtRest \/ ~sinceCancel))

\* C8: after a stream-end or error event handled by a live controller the
\* status is idle, isStreaming is false and no timeout is pending.
C8_TerminalEventsUnconditional ==
    (isMounted /\ lastOp.op \in {"agent-stream-end", "agent-error"}) =>
        (Idle /\ timers = {})

\* a stream-end came to a session that was idle with isStreaming false already
C8_Witness ==
    /\ isMounted
    /\ lastOp = Op("agent-stream-end", <<"at-rest">>)
    /\ store.messages # << >>

\* a status payload the handler takes to idle: one of the idle words, or a
\* cancel or denial word with neither thinking nor executing in the text
NormalisesToIdle(payload) ==
    LET st == toLowerCase(payload) IN
    \/ includes(st, KwIdle) \/ includes(st, KwReady) \/ includes(st, KwComplete)
    \/ /\ ~includes(st, KwThinking) /\ ~includes(st, KwExecuting)
       /\ (includes(st, KwCancel) \/ includes(st, KwDenied))

\* C9: after a tool-result event or a status event normalised to idle no
\* inactivity timer is pending.
C9_StatusAndToolResultDisarm ==
    ( /\ isMounted
      /\ \/ lastOp.op = "agent-tool-result"
         \/ lastOp.op = "agent-status" /\ NormalisesToIdle(lastOp.arg) )
    => timers = {}

\* a status payload that denotes a cancellation or a denial
DenotesCancelOrDenial(payload) ==
    LET st == toLowerCase(payload) IN includes(st, KwCancel) \/ includes(st, KwDenied)

\* C10: after a status event whose text contains cancel or denied no tool is
\* pending.
C10_DenialClearsPendingTool ==
    (isMounted /\ lastOp.op = "agent-status" /\ DenotesCancelOrDenial(lastOp.arg))
    => store.pendingTool = Null

\* C11: an approval issues send_user_feedback with approved = true, and once
\* that call has resolved no tool is pending and the status is executing,
\* whichever entry point (chat panel or modal) the user took.
C11_ApproveClearsAndExecutes ==
    /\ lastOp.op \in {"handleApproveTool", "handleApprove"} =>
           \E i \in 1..Len(feedback) : feedback[i].approved
    /\ (lastOp.op = "feedback-resolved" /\ lastOp.arg[1]) =>
           (store.pendingTool = Null /\ store.status = "executing")

\* C12: a denial issues send_user_feedback with approved = false, and once that
\* call has resolved no tool is pending and the status is thinking, whichever
\* entry point (chat panel, Escape, or modal) the user took.
C12_DenyClearsAndThinks ==
    /\ lastOp.op \in {"handleDenyTool", "handleDeny"} =>
           \E i \in 1..Len(feedback) : ~feedback[i].approved
    /\ (lastOp.op = "feedback-resolved" /\ ~lastOp.arg[1]) =>
           (store.pendingTool = Null /\ store.status = "thinking")

\* the tool an approval-request event asked for
Requested(arg) == Some([name |-> arg[1], args |-> arg[2]])

\* C16: after an approval-request event the store holds exactly the tool of
\* that event, whatever it held before; and the pending tool only ever changes
\* to null or to the tool of the event being handled, so an overwritten tool
\* never comes back.
C16_LastWriteWins ==
    /\ [](( isMounted /\ lastOp.op = "agent-approval-request" ) =>
            store.pendingTool = Requested(lastOp.arg))
    /\ [][ store'.pendingTool \notin {Null, store.pendingTool} =>
             ( /\ lastOp'.op = "agent-approval-request"
               /\ store'.pendingTool = Requested(lastOp'.arg) ) ]_vars

\* run_terminal was requested while write_file was still pending
C16_Witness ==
    /\ lastOp.op = "agent-approval-request"
    /\ lastOp.arg = << "run_terminal", "{}", Some([name |-> "write_file", args |-> "{}"]) >>
    /\ store.pendingTool = Some([name |-> "run_terminal", args |-> "{}"])

\* C13: a call made less than minInterval after the last action start runs
\* nothing and returns null, whether that action is still in flight or not; a
\* call made with no action in flight and minInterval or more after the last
\* action start (or before any action) runs its action, and the action's
\* result is what the call returns.
C13_MinimumInterval ==
    /\ lastOp.op = "executeRequest" =>
         LET c == lastOp.arg IN
         /\ (c.lastStart # Null /\ c.at - c.lastStart[1] < c.minInterval) =>
                (~c.ran /\ c.returned = "null")
         /\ (~c.busy /\ (c.lastStart = Null \/ c.at - c.lastStart[1] >= c.minInterval)) =>
                c.ran
    /\ lastOp.op = "action-resolved" => lastOp.arg.returned \in ActionResults

\* a call skipped for coming too soon although the first action had completed
C13_Witness ==
    /\ lastOp.op = "executeRequest"
    /\ ~lastOp.arg.ran
    /\ ~lastOp.arg.busy
    /\ lastOp.arg.lastStart # Null
    /\ lastOp.arg.at > lastOp.arg.lastStart[1]
    /\ lastOp.arg.at - lastOp.arg.lastStart[1] < lastOp.arg.minInterval

\* C14: at most one action is in flight; the in-flight flag is up exactly
\* while an action is in flight; a call made in that window runs nothing and
\* returns null whatever time has passed; the flag is down after a rejection.
C14_InFlightExclusion ==
    /\ running <= 1
    /\ stateRef.isSubmitting <=> running = 1
    /\ (lastOp.op = "executeRequest" /\ lastOp.arg.busy) =>
           (~lastOp.arg.ran /\ lastOp.arg.returned = "null")
    /\ lastOp.op = "action-rejected" => ~stateRef.isSubmitting

\* a call skipped because an action was in flight, minInterval having passed
C14_Witness ==
    /\ lastOp.op = "executeRequest"
    /\ lastOp.arg.busy
    /\ ~lastOp.arg.ran
    /\ lastOp.arg.at - lastOp.arg.lastStart[1] >= lastOp.arg.minInterval

\* C15: setStatus(idle) leaves thinkingText empty and tokenCount 0 whatever
\* they were and whatever the mode; setStatus with another status leaves both
\* as they were. The store of the running application has no token count and
\* treats its thinkingText the same way.
C15_IdleClearsScratch ==
    /\ lastOp.op = "AgentSlice.setStatus" =>
         IF lastOp.arg.status = "idle"
         THEN agentSlice.thinkingText = "" /\ agentSlice.tokenCount = 0
         ELSE /\ agentSlice.thinkingText = lastOp.arg.thinkingText
              /\ agentSlice.tokenCount = lastOp.arg.tokenCount
    /\ lastOp.op = "AgentSlice.setStatus" => agentSlice.status = lastOp.arg.status
    /\ lastOp.op = "useAgentStore.setStatus" =>
         IF lastOp.arg.status = "idle"
         THEN store.thinkingText = ""
         ELSE store.thinkingText = lastOp.arg.thinkingText

\* setStatus(idle) in turbo mode found a thinking text and a token count of 2
C15_Witness ==
    /\ lastOp.op = "AgentSlice.setStatus"
    /\ lastOp.arg = [ status |-> "idle", thinkingText |-> "analyzing", tokenCount |-> 2 ]
    /\ agentSlice.mode = "turbo"
    /\ agentSlice.tokenCount = 0

PathsOf(files) == [ k \in 1..Len(files) |-> files[k].path ]

UniquePaths(files) ==
    \A j, k \in 1..Len(files) : files[j].path = files[k].path => j = k

\* C17: no two open files have the same path, and openFile for a path that is
\* open already leaves the list as it was and makes that entry the active one.
C17_PathsUnique ==
    /\ UniquePaths(store.openFiles)
    /\ ( /\ lastOp.op = "openFile"
         /\ \E k \in 1..Len(lastOp.arg.before.openFiles) :
                lastOp.arg.before.openFiles[k].path = lastOp.arg.path )
       => /\ store.openFiles = lastOp.arg.before.openFiles
          /\ store.activeFileIndex >= 0
          /\ store.activeFileIndex < Len(store.openFiles)
          /\ store.openFiles[store.activeFileIndex + 1].path = lastOp.arg.path

\* a.ts, edited by the user and not the active file, was opened again
C17_Witness ==
    /\ lastOp.op = "openFile"
    /\ lastOp.arg.path = "a.ts"
    /\ Len(lastOp.arg.before.openFiles) = 2
    /\ lastOp.arg.before.openFiles[1].path = "a.ts"
    /\ lastOp.arg.before.openFiles[1].isModified
    /\ lastOp.arg.before.activeFileIndex = 1
    /\ store.activeFileIndex = 0

\* C18: closeFile with a valid index removes that entry and keeps the others
\* in order; the list left empty gives active index -1; otherwise an index
\* before the active one moves the active index down by one (the same file
\* stays active), an index after it leaves it, and the active index itself
\* gives max(0, i - 1).
C18_CloseRecomputesActive ==
    ( /\ lastOp.op = "closeFile"
      /\ lastOp.arg.index >= 0
      /\ lastOp.arg.index < Len(lastOp.arg.before.openFiles) )
    => LET i == lastOp.arg.index
           files == lastOp.arg.before.openFiles
           active == lastOp.arg.before.activeFileIndex
       IN  /\ Len(store.openFiles) = Len(files) - 1
           /\ \A k \in 1..Len(store.openFiles) :
                  store.openFiles[k] = IF k <= i THEN files[k] ELSE files[k + 1]
           /\ IF Len(files) = 1
              THEN store.activeFileIndex = -1
              ELSE /\ i < active =>
                         /\ store.activeFileIndex = active - 1
                         /\ active < Len(files) =>
                                store.openFiles[store.activeFileIndex + 1] = files[active + 1]
                   /\ i > active => store.activeFileIndex = active
                   /\ i = active => store.activeFileIndex = max(0, i - 1)

\* [a, b, c] with c active, a closed: [b, c] with c still active at index 1
C18_Witness ==
    /\ lastOp.op = "closeFile"
    /\ lastOp.arg.index = 0
    /\ PathsOf(lastOp.arg.before.openFiles) = << "a.ts", "b.ts", "c.ts" >>
    /\ lastOp.arg.before.activeFileIndex = 2
    /\ PathsOf(store.openFiles) = << "b.ts", "c.ts" >>
    /\ store.activeFileIndex = 1

\* C19: the active index is -1 exactly when no file is open, and otherwise a
\* valid index of the list.
C19_ActiveIndexInRange ==
    IF Len(store.openFiles) = 0
    THEN store.activeFileIndex = -1
    ELSE store.activeFileIndex >= 0 /\ store.activeFileIndex < Len(store.openFiles)

\* an index that is no index of the list
OutOfRange(index, files) == index < 0 \/ index >= Len(files)

\* C20: closeFile with an out-of-range index leaves the files and the active
\* index as they were; updateFileContent and markFileSaved with an
\* out-of-range index leave the files as they were.
C20_OutOfRangeIsNoOp ==
    /\ ( /\ lastOp.op = "closeFile"
         /\ OutOfRange(lastOp.arg.index, lastOp.arg.before.openFiles) )
       => /\ store.openFiles = lastOp.arg.before.openFiles
          /\ store.activeFileIndex = lastOp.arg.before.activeFileIndex
    /\ ( /\ lastOp.op \in {"updateFileContent", "markFileSaved"}
         /\ OutOfRange(lastOp.arg.index, lastOp.arg.before.openFiles) )
       => store.openFiles = lastOp.arg.before.openFiles

DistinctIds(messages) ==
    \A j, k \in 1..Len(messages) : messages[j].id = messages[k].id => j = k

\* what one step may do to the message list
MessagesKept(before, after) ==
    /\ Len(after) >= Len(before)
    /\ \A k \in 1..Len(before) :
          /\ after[k].id = before[k].id
          /\ after[k].role = before[k].role
          /\ after[k].timestamp = before[k].timestamp
          /\ after[k].content # before[k].content =>
                 /\ k = Len(before)
                 /\ before[k].role = "model"

\* C21: every message keeps its id, role, timestamp and position, ids are
\* pairwise distinct, and content changes only in the last message of the list
\* and only when that message is a model message.
C21_MessagesImmutable ==
    /\ [](DistinctIds(store.messages))
    /\ [][MessagesKept(store.messages, store'.messages)]_vars

\* a streamed model message that was rewritten later than it was created, behind
\* a user message that kept its content
C21_Witness ==
    /\ lastOp.op \in {"updateStreamingMessage", "agent-stream-chunk"}
    /\ Len(store.messages) = 2
    /\ store.messages[1].role = "user"
    /\ store.messages[2].role = "model"
    /\ store.messages[2].content = "c2"
    /\ store.messages[2].timestamp < now
    /\ store.messages[1].timestamp < store.messages[2].timestamp

\* C22: once the set_connection_mode call has resolved or rejected,
\* modelLoadProgress eventually is null again, whatever the order of the
\* model-load events and the response.
C22_SwitchNeverStuck ==
    [](lastOp.op \in {"switch-resolved", "switch-rejected"}
           => <>(store.modelLoadProgress = Null))

\* the calls that completed, in order, when the setup had to be run
SetupRun == << "setup-missing", "detect_gpu_cmd", "download_binaries", "download_model" >>

\* C23: set_connection_mode(offline) is issued only after check_setup_status
\* reported binaries and model present, or after detect_gpu_cmd,
\* download_binaries and download_model completed in this order in the same
\* flow; a switch to cloud issues no check_setup_status; a failing probe or
\* download issues no set_connection_mode and leaves connectionMode unchanged.
C23_OfflineGatedOnSetup ==
    /\ (lastOp.op = "set_connection_mode" /\ lastOp.arg[1] = "offline") =>
           lastOp.arg[3] \in { << "setup-ok" >>, SetupRun }
    /\ (lastOp.op = "set_connection_mode" /\ lastOp.arg[1] = "cloud") =>
           lastOp.arg[3] = << >>
    /\ (lastOp.op = "handleToggleClick" /\ lastOp.arg[1] = "cloud") =>
           (toggle.check = "idle" /\ ~toggle.isChecking /\ toggle.showConfirmDialog)
    /\ lastOp.op = "check-rejected" =>
           /\ store.connectionMode = lastOp.arg[2]
           /\ toggle.switch = lastOp.arg[3]
           /\ ~toggle.showConfirmDialog /\ ~toggle.showSetupDialog
    /\ lastOp.op = "setup-failed" =>
           /\ store.connectionMode = lastOp.arg[1]
           /\ toggle.switch = lastOp.arg[2]
           /\ toggle.setup = "idle"

\* the setup was run to its end and the switch to offline issued from it
C23_Witness ==
    /\ lastOp.op = "set_connection_mode"
    /\ lastOp.arg[1] = "offline"
    /\ lastOp.arg[2] = "setup"
    /\ lastOp.arg[3] = SetupRun
    /\ toggle.setup = "switching"
    /\ store.connectionMode = "cloud"

\* C24: after cancel_download succeeded setupStatus is needs_setup and
\* downloadProgress is null, and both stay so until setup is started again;
\* after cancel_download failed both are as they were.
C24_CancelSticks ==
    /\ [](lastOp.op = "cancel-download-resolved" =>
              (store.setupStatus = "needs_setup" /\ store.downloadProgress = Null))
    /\ [](lastOp.op = "cancel-download-rejected" =>
              /\ store.setupStatus = lastOp.arg[1]
              /\ lastOp.arg[2] = "null" <=> store.downloadProgress = Null)
    /\ [][ ( /\ toggle.cancelled /\ toggle'.cancelled
             /\ store.setupStatus = "needs_setup"
             /\ store.downloadProgress = Null )
           => ( /\ store'.setupStatus = "needs_setup"
                /\ store'.downloadProgress = Null ) ]_vars

\* C25: with the transport unavailable no subscribe operation of the EventBus
\* rejects (each resolves to a handle), and the controller whose listen() calls
\* rejected goes on with its store in the initial state.
C25_SubscribeFailsSoftly ==
    /\ \A method \in BusMethods : bus[method] # "rejected"
    /\ listeners = "rejected" => store = InitStore

\* handleSend's own precondition on the session: if (... || status !== 'idle') return
CanSubmit == store.status = "idle"

\* C26: once start_agent_task has been rejected, isStreaming is false and the
\* submit precondition holds again, with no backend event and no cancel.
C26_FailedStartRecovers ==
    lastOp.op = "start-rejected" => (~store.isStreaming /\ CanSubmit)

\* the executions from the newest to the oldest
NewestFirst(executions) ==
    \A j, k \in 1..Len(executions) : j < k => executions[j].id > executions[k].id

\* what one addToolExecution may do to the log
AddedAtFront(before, after) ==
    /\ Len(after) = min(Len(before) + 1, MAX_TOOL_HISTORY)
    /\ \A k \in 2..Len(after) : after[k] = before[k - 1]
    /\ \A k \in 1..Len(before) : before[k].id < after[1].id

\* C27: the log never holds more than MAX_TOOL_HISTORY entries; an append to
\* a full log evicts exactly the oldest entry and keeps the order of the rest;
\* getRecentExecutions(k) returns the k most recently added entries, newest
\* first.
C27_BoundedFifo ==
    /\ [](Len(toolLog.toolExecutions) <= MAX_TOOL_HISTORY)
    /\ [](NewestFirst(toolLog.toolExecutions))
    /\ [][ toolLog'.added # toolLog.added =>
               AddedAtFront(toolLog.toolExecutions, toolLog'.toolExecutions) ]_vars
    /\ []( (lastOp.op = "getRecentExecutions" /\ lastOp.arg[1] >= 0) =>
             LET count == lastOp.arg[1]
                 recent == lastOp.arg[2]
                 all == toolLog.toolExecutions
             IN  /\ Len(recent) = min(count, Len(all))
                 /\ NewestFirst(recent)
                 /\ \A k \in 1..Len(recent) :
                        /\ \E j \in 1..Len(all) : all[j] = recent[k]
                        /\ Cardinality({ j \in 1..Len(all) :
                                           all[j].id > recent[k].id }) = k - 1 )

\* the log was full and one more execution was added: the first one is gone
C27_Witness ==
    /\ lastOp.op = "addToolExecution"
    /\ toolLog.added = MAX_TOOL_HISTORY + 1
    /\ Len(toolLog.toolExecutions) = MAX_TOOL_HISTORY
    /\ toolLog.toolExecutions[1].id = MAX_TOOL_HISTORY + 1
    /\ toolLog.toolExecutions[MAX_TOOL_HISTORY].id = 2

\* the keyword group of a status text, by the precedence of the claim
StatusGroup(payload) ==
    LET st == toLowerCase(payload) IN
    IF includes(st, KwIdle) \/ includes(st, KwReady) \/ includes(st, KwComplete)
    THEN "idle"
    ELSE IF includes(st, KwThinking) THEN "thinking"
    ELSE IF includes(st, KwExecuting) THEN "executing"
    ELSE IF includes(st, KwCancel) \/ includes(st, KwDenied) THEN "cancel"
    ELSE "none"

\* the fields a status event may write: status, isStreaming, and thinkingText
\* (which setStatus clears on idle)
SameBut(before, after, fields) ==
    \A f \in DOMAIN before : f \notin fields => after[f] = before[f]

StatusEffect(before, after, payload) ==
    LET group == StatusGroup(payload) IN
    /\ group \in {"idle", "cancel"} =>
           /\ after.status = "idle" /\ ~after.isStreaming
           /\ SameBut(before, after, {"status", "isStreaming", "thinkingText"})
    /\ group \in {"thinking", "executing"} =>
           /\ after.status = group
           /\ SameBut(before, after, {"status"})
    /\ group = "none" => after = before
    /\ after.status # before.status => after.status \in {"idle", "thinking", "executing"}

\* C28: a status event is matched without regard to case by substring, with
\* the precedence idle/ready/complete, thinking, executing, cancel/denied; the
\* first and the last group set status idle and isStreaming false, thinking
\* and executing set that status, a text with no keyword changes no store
\* field, and no other status is ever set.
C28_StatusNormalisation ==
    [][ (lastOp'.op = "agent-status" /\ isMounted) =>
            StatusEffect(store, store', lastOp'.arg) ]_vars

\* "thinking idle" arrived at a session that was streaming and went idle
C28_Witness ==
    /\ lastOp.op = "agent-status"
    /\ lastOp.arg = <<"t","h","i","n","k","i","n","g"," ","i","d","l","e">>
    /\ isMounted
    /\ store.status = "idle"
    /\ ~store.isStreaming
    /\ Len(store.messages) = 2
    /\ store.pendingTool # Null

\* what a tool-result event does to the store of a live controller
ToolResultEffect(before, after, tool, result) ==
    /\ Len(after.messages) = Len(before.messages) + 1
    /\ \A k \in 1..Len(before.messages) : after.messages[k] = before.messages[k]
    /\ after.messages[Len(after.messages)].role = "tool"
    /\ after.messages[Len(after.messages)].content =
           "**" \o tool \o "**\n" \o Fence \o "\n" \o result \o "\n" \o Fence
    /\ ~after.isStreaming
    /\ SameBut(before, after, {"messages", "isStreaming"})

\* C29: a tool-result event handled by a live controller appends exactly one
\* tool message, made of the tool name and the result, at the end of the list,
\* sets isStreaming to false, and leaves status, pendingTool and the earlier
\* messages as they were.
C29_ToolResultAppends ==
    [][ \A tool \in RequestedTools, result \in ReportedResults :
            (isMounted /\ AgentToolResult(tool, result)) =>
                ToolResultEffect(store, store', tool, result) ]_vars

\* the result of run_terminal arrived while the session was executing, a tool
\* was pending and the list held the user's message
C29_Witness ==
    /\ lastOp.op = "agent-tool-result"
    /\ isMounted
    /\ store.status = "executing"
    /\ store.pendingTool # Null
    /\ ~store.isStreaming
    /\ Len(store.messages) = 2
    /\ store.messages[1].role = "user"
    /\ store.messages[2].role = "tool"
    /\ store.messages[2].content =
           "**run_terminal**\n" \o Fence \o "\nerror: not found\n" \o Fence

\* what a file-access event does to the store of a live controller
FileAccessEffect(before, after, action, path) ==
    /\ SameBut(before, after, {"openFiles", "activeFileIndex"})
    /\ IF path # "" /\ action \in {"read", "write"}
       THEN IF \E k \in 1..Len(before.openFiles) : before.openFiles[k].path = path
            THEN /\ after.openFiles = before.openFiles
                 /\ after.activeFileIndex \in 0..(Len(after.openFiles) - 1)
                 /\ after.openFiles[after.activeFileIndex + 1].path = path
            ELSE /\ Len(after.openFiles) = Len(before.openFiles) + 1
                 /\ \A k \in 1..Len(before.openFiles) :
                        after.openFiles[k] = before.openFiles[k]
                 /\ after.openFiles[Len(after.openFiles)].path = path
                 /\ after.openFiles[Len(after.openFiles)].source = "agent"
                 /\ ~after.openFiles[Len(after.openFiles)].isModified
                 /\ after.activeFileIndex = Len(after.openFiles) - 1
       ELSE /\ after.openFiles = before.openFiles
            /\ after.activeFileIndex = before.activeFileIndex

\* C30: a file-access event with action read or write and a non-empty path
\* opens the path with source agent and makes it the active file, or only
\* activates the entry when the path is open already (a user's entry stays the
\* user's); any other event leaves openFiles and activeFileIndex as they were.
C30_FileAccessOpens ==
    [][ \A action \in FileActions, path \in AccessPaths :
            (isMounted /\ AgentFileAccess(action, path)) =>
                FileAccessEffect(store, store', action, path) ]_vars

\* the agent read a.ts, which the user had opened and edited and which was not
\* the active file: the entry is the user's still, edited still, and active
C30_Witness ==
    /\ lastOp.op = "agent-file-access"
    /\ isMounted
    /\ Len(store.openFiles) = 2
    /\ store.openFiles[1].path = "a.ts"
    /\ store.openFiles[1].source = "user"
    /\ store.openFiles[1].isModified
    /\ store.openFiles[2].source = "agent"
    /\ store.activeFileIndex = 0

\* C31: while check_for_updates keeps failing with network errors and the user
\* asks for no check, at most MAX_RETRIES retry timers are started, the k-th
\* with a delay of RETRY_DELAY_BASE * 2^(k-1); a failure that is not classified
\* as a network error starts none, and once the retries are used up the updater
\* rests in status error with no retry timer pending
C31_RetryBounded ==
    ~updater.manual =>
        /\ Len(updater.retryRun) <= MAX_RETRIES
        /\ \A k \in 1..Len(updater.retryRun) :
               updater.retryRun[k] = RETRY_DELAY_BASE * 2^(k - 1)
        /\ (Len(updater.retryRun) = MAX_RETRIES /\ updater.checks = << >>
                /\ updater.status = "error")
               => updater.retryTimers = << >>

\* C32: when stream-end, error or the inactivity timer resets the session, no
\* subscriber of the store is called with a state in which only part of the
\* transition has been applied: every state the subscribers are called with is
\* the state before or the state after the transition, the last one the state after
C32_TransitionsIndivisible ==
    [][ ((Alive /\ (AgentStreamEnd \/ AgentError))
            \/ (TimerAlive /\ \E id \in 1..MaxTimerId : StreamingTimeout(id)))
        => LET seen == Notified(store, EndOfTurnCalls)
           IN  /\ store' = seen[Len(seen)]
               /\ \A k \in 1..Len(seen) : seen[k] \in {store, store'} ]_vars

\* the store calls listed are the ones the transitions make
EndOfTurnCallsApplied ==
    [][ ((Alive /\ (AgentStreamEnd \/ AgentError))
            \/ (TimerAlive /\ \E id \in 1..MaxTimerId : StreamingTimeout(id)))
        => store' = Notified(store, EndOfTurnCalls)[Len(EndOfTurnCalls)] ]_vars

\* C33: once set_connection_mode has resolved or rejected and the mode-switch
\* flow and the setup flow have ended, none of the listeners they registered
\* (model-load-progress, model-load-complete, download-progress, setup-complete)
\* is still registered
C33_SubscriptionsTornDown ==
    (lastOp.op \in {"switch-resolved", "switch-rejected"}
        /\ toggle.switch = "idle" /\ toggle.setup = "idle") =>
        /\ \A k \in 1..Len(toggle.loadGens) :
               ~toggle.loadGens[k].load /\ ~toggle.loadGens[k].complete
        /\ \A k \in 1..Len(toggle.setupGens) :
               ~toggle.setupGens[k].progress /\ ~toggle.setupGens[k].complete

\* C34: an open file is marked modified only if its content was changed in the
\* editor since it was opened or last saved; content read from the backend
\* does not mark it
C34_ModifiedMeansEdited ==
    \A k \in 1..Len(store.openFiles) :
        store.openFiles[k].isModified => store.openFiles[k].path \in editorIO.edited

\* C37: when read_workspace_file resolves for path P its content is written only
\* to the open file whose path is P, and when save_workspace_file resolves for
\* path P only the open file whose path is P is marked saved, whatever was
\* opened or closed while the call was awaiting its response
C37_WriteBacksHitTheirFile ==
    [][ \A i \in 1..MaxEditorCalls :
            ((\E content \in EditorContents : ReadResolved(i, content)) \/ SaveResolved(i))
            => \A k \in 1..Len(store.openFiles) :
                   store'.openFiles[k] # store.openFiles[k]
                       => store.openFiles[k].path = editorIO.calls[i].path ]_vars

\* C35: while a tool approval is outstanding (pendingTool is set) the status is
\* not idle, so that no new prompt can be submitted; a stream-end, an error, an
\* idle status or the inactivity timer does not leave pendingTool set with
\* status idle
C35_ApprovalBlocksSubmit ==
    store.pendingTool # Null => store.status # "idle"

\* C36: once the user has answered an approval request and send_user_feedback
\* has been issued, a second answer given while nothing else has happened (no
\* response, no new approval request) issues no second send_user_feedback
C36_OneFeedbackPerRequest ==
    [][ lastOp.op \in {"handleApproveTool", "handleDenyTool", "handleApprove", "handleDeny"}
            => Len(feedback') <= Len(feedback) ]_vars

\* C38: at most one inactivity timer is pending at any time, and it is the one
\* armed last: re-arming on a thinking or stream-chunk event cancels the timer
\* armed before, so the only timer that can fire is one that no such event
\* has followed
C38_SingleWatchdog ==
    /\ Cardinality(timers) <= 1
    /\ timers \subseteq {streamingTimeoutRef}

\* a chunk re-armed the watchdog: the second timer is pending, the first is not
C38_Witness ==
    /\ isMounted
    /\ lastOp.op = "agent-stream-chunk"
    /\ streamingTimeoutRef = 2
    /\ timers = {2}

\* C39: a call that executeRequest skips, because an action is in flight or
\* because the minimum interval has not elapsed, leaves the in-flight flag and
\* the last-request time as they were, and starts no action
C39_SkippedChangesNothing ==
    [][ \A options \in MinIntervalOptions :
            ( /\ executeRequest(options)
              /\ \/ stateRef.isSubmitting
                 \/ TooSoon(now, stateRef.lastRequestTime, minIntervalOf(options)) )
            => (stateRef' = stateRef /\ running' = running) ]_vars

\* a call skipped some time after the action in flight had started: the flag
\* is still up and the time recorded is still that of the start
C39_Witness ==
    /\ lastOp.op = "executeRequest"
    /\ ~lastOp.arg.ran
    /\ running = 1
    /\ stateRef.isSubmitting
    /\ lastStart # Null
    /\ stateRef.lastRequestTime = lastStart[1]
    /\ lastOp.arg.at > lastStart[1]

====
